---- MODULE Spec2Model ----
(***************************************************************************)
(* A model of two scikit-image primitives:                                 *)
(*   - skimage.morphology.flood / flood_fill  (_flood_fill.py)             *)
(*   - the sliding-window rank filters        (filters/rank/generic.py)    *)
(* The Python front ends are translated from the source.  The compiled     *)
(* kernels (_flood_fill_cy, generic_cy) and the helpers of _util are not   *)
(* part of the source tree at hand; they are modelled from the             *)
(* specification's description of them.                                    *)
(***************************************************************************)
EXTENDS Integers, Sequences, FiniteSets, TLC

\* ------------------------------------------------------------------ bounds
\* Width, in bits, of the signed integer type standing for the image dtype
\* (a scaled-down int64: arithmetic on it wraps modulo 2^IntBits).
IntBits == 4
\* Image cells of the enumerated images hold the MaxVal + 1 largest values of
\* the type, so that seed_value + tolerance can pass the type's maximum.
MaxVal == 2
\* Tolerances tried are 0 .. MaxTol (and None).
MaxTol == 2

TypeSpan == 2 ^ IntBits
TypeMin == 0 - (2 ^ (IntBits - 1))
TypeMax == (2 ^ (IntBits - 1)) - 1

\* An optional value is the empty set (None) or a singleton.
None == {}
Some(x) == {x}
The(S) == CHOOSE x \in S : TRUE

Min2(a, b) == IF a <= b THEN a ELSE b
Max2(a, b) == IF a >= b THEN a ELSE b

\* ------------------------------------------------------------------ arrays
\* A 2-D array of shape <<rows, cols>> is a function on its positions <<r, c>>,
\* 0-based as in the source.
Positions(shp) == (0 .. shp[1] - 1) \X (0 .. shp[2] - 1)

\* A variant of HasZeroAxis that asks for every axis to be empty.
AllAxesZero(shp) == shp[1] = 0 /\ shp[2] = 0

\* `0 in image.shape`
HasZeroAxis(shp) == shp[1] = 0 \/ shp[2] = 0

\* image.min()
RECURSIVE SetMin(_)
SetMin(S) ==
    LET x == CHOOSE y \in S : TRUE
    IN  IF S = {x} THEN x ELSE Min2(x, SetMin(S \ {x}))
ArrayMin(img) == SetMin({img[p] : p \in DOMAIN img})

\* ------------------------------------------------------------------ state
VARIABLES
    pc,                \* position of the call: "call", "fill", "returned",
                       \* "raised", "filled", or "idle"
    image,             \* the caller's array
    shape,             \* image.shape
    layout,            \* memory layout of the caller's array: "C", "F", or
                       \* "N" for a view that is not contiguous
    seed_point,        \* argument seed_point
    footprint_arg,     \* argument footprint (optional)
    connectivity,      \* argument connectivity (optional)
    tolerance,         \* argument tolerance (optional)
    order,             \* local `order` (optional until set)
    seed_value,        \* local `seed_value` (optional until set)
    start_point,       \* local `seed_point` after the modulo (optional)
    footprint,         \* local `footprint` after _resolve_neighborhood
    working_image,     \* ravelled padded image
    ravelled_seed_idx, \* linear index of the seed in the padded buffers
    neighbor_offsets,  \* sequence of signed linear offsets
    flags,             \* ravelled flag grid: 0 unvisited, 1 in region, 2 border
    low_tol, high_tol, \* tolerance bounds handed to the kernel (optional)
    stack,             \* the kernel's worklist of linear indices
    mask,              \* the array flood returns (optional until returned)
    error,             \* the exception raised, "" if none
    filled,            \* the array flood_fill returns (optional)
    new_value,         \* flood_fill argument new_value (optional)
    in_place,          \* flood_fill's effective in_place (optional)
    inplace_arg,       \* flood_fill's deprecated argument inplace (optional)
    result_is_image    \* whether the returned array is the caller's array
                       \* object (optional)

\* The state of a rank-filter call (generic.py and its kernel).
VARIABLES
    rk_pc,         \* position of the call: "call", "kernel", "scan", "done",
                   \* "raised", or "idle"
    rk_func,       \* the filter called: "pop", "minimum", ...
    rk_image,      \* argument image
    rk_shape,      \* image.shape
    rk_dtype,      \* image.dtype: "uint8", "uint16", "float64" or "bool"
    rk_contiguous, \* whether the image is C-contiguous
    rk_footprint,  \* argument footprint
    rk_fshape,     \* footprint.shape
    rk_mask,       \* argument mask (optional)
    rk_mask_dtype, \* mask.dtype: "uint8", "uint16", "bool" or "float64"
    rk_shift_x,    \* argument shift_x
    rk_shift_y,    \* argument shift_y
    rk_shift_z,    \* argument shift_z
    rk_out_arg,    \* argument out: "none", "image" (the image array itself)
                   \* or "other" (another array of the image's shape and
                   \* dtype)
    rk_n_bins_arg, \* windowed_histogram's argument n_bins (optional)
    rk_kernel,     \* the arguments handed to the kernel (optional)
    rk_hist,       \* the kernel's local histogram, bin -> count
    rk_pop,        \* the kernel's running population count
    rk_row,        \* row of the window centre
    rk_col,        \* column of the window centre
    rk_out,        \* the output cells written so far
    rk_excluded,   \* the pixels the kernel's latest step took out of the histogram
    rk_included,   \* the pixels the kernel's latest step put into the histogram
    rk_error       \* the exception raised, "" if none

rankArgs == <<rk_func, rk_image, rk_shape, rk_dtype, rk_contiguous, rk_footprint,
              rk_fshape, rk_mask, rk_mask_dtype, rk_shift_x, rk_shift_y, rk_shift_z,
              rk_out_arg, rk_n_bins_arg>>
rankScan == <<rk_hist, rk_pop, rk_row, rk_col, rk_out, rk_excluded, rk_included>>
rankVars == <<rk_pc, rankArgs, rk_kernel, rankScan, rk_error>>

\* No rank-filter call is under way.
RankIdle ==
    /\ rk_pc = "idle"
    /\ rk_func = ""
    /\ rk_image = << >>
    /\ rk_shape = <<0, 0>>
    /\ rk_dtype = ""
    /\ rk_contiguous = TRUE
    /\ rk_shift_z = 0
    /\ rk_out_arg = "none"
    /\ rk_n_bins_arg = None
    /\ rk_footprint = << >>
    /\ rk_fshape = <<0, 0>>
    /\ rk_mask = None
    /\ rk_mask_dtype = "uint8"
    /\ rk_shift_x = 0
    /\ rk_shift_y = 0
    /\ rk_kernel = None
    /\ rk_hist = << >>
    /\ rk_pop = 0
    /\ rk_row = 0
    /\ rk_col = 0
    /\ rk_out = << >>
    /\ rk_excluded = {}
    /\ rk_included = {}
    /\ rk_error = ""

\* Two flood calls running at the same time, each on its own copy of an image.
VARIABLES
    heap,          \* the arrays allocated so far: buffer id -> array
    calls          \* call number -> the call's arguments and locals; arrays
                   \* are held as buffer ids

pairVars == <<heap, calls>>

\* No pair of flood calls is under way.
PairIdle ==
    /\ heap = << >>
    /\ calls = << >>

floodArgs == <<shape, layout, seed_point, footprint_arg, connectivity, tolerance>>
floodLocals == <<order, seed_value, start_point, footprint, working_image,
                 ravelled_seed_idx, neighbor_offsets, low_tol, high_tol>>
fillVars == <<filled, new_value, in_place, inplace_arg, result_is_image>>
floodVars == <<pc, image, floodArgs, floodLocals, flags, stack, mask, error, fillVars>>
vars == <<floodVars, rankVars, pairVars>>


\* ------------------------------------------------------------------ flood: helpers
\* image.flags.f_contiguous / c_contiguous: an array with at most one axis
\* longer than 1 is both.
FContiguous(lay, shp) == lay = "F" \/ (lay = "C" /\ (shp[1] <= 1 \/ shp[2] <= 1))
CContiguous(lay, shp) == lay = "C" \/ (lay = "F" /\ (shp[1] <= 1 \/ shp[2] <= 1))

\* The ravel order flood settles on.
RavelOrder(lay, shp) ==
    IF FContiguous(lay, shp) THEN "F"
    ELSE IF CContiguous(lay, shp) THEN "C"
    ELSE "C"

\* `image[seed_point]` accepts index c on an axis of extent n iff -n <= c < n.
IndexInRange(c, n) == (0 - n) <= c /\ c < n
SeedIndexable(sp, shp) == IndexInRange(sp[1], shp[1]) /\ IndexInRange(sp[2], shp[2])

\* The element `arr[sp]` of an array of shape shp, negative indices counted
\* from the end.
NormIndex(c, n) == IF c < 0 THEN c + n ELSE c
ArrayAt(arr, sp, shp) == arr[<<NormIndex(sp[1], shp[1]), NormIndex(sp[2], shp[2])>>]

\* A variant of SeedModShape that leaves the modulo out.
SeedNotWrapped(sp, shp) == sp

\* `tuple(np.asarray(seed_point) % image.shape)`
SeedModShape(sp, shp) == <<sp[1] % shp[1], sp[2] % shp[2]>>

\* The shape of np.pad(image, 1).
PaddedShape(shp) == <<shp[1] + 2, shp[2] + 2>>
ArraySize(shp) == shp[1] * shp[2]

\* np.ravel_multi_index(coord, shp, order) and its inverse.
RavelMultiIndex(coord, shp, ord) ==
    IF ord = "C" THEN coord[1] * shp[2] + coord[2]
    ELSE coord[1] + coord[2] * shp[1]
UnravelIndex(i, shp, ord) ==
    IF ord = "C" THEN <<i \div shp[2], i % shp[2]>>
    ELSE <<i % shp[1], i \div shp[1]>>

\* arr.ravel(order) of a 2-D array of shape shp.
Ravel(arr, shp, ord) ==
    [i \in 0 .. ArraySize(shp) - 1 |-> arr[UnravelIndex(i, shp, ord)]]

\* A variant of RavelledSeedIdx that ravels in row-major order whatever the
\* buffer's order.
RavelledSeedIdxRowMajor(sp, shp, ord) == (sp[1] + 1) * (shp[2] + 2) + sp[2] + 1

\* A variant of RavelledSeedIdx that forgets the one-cell padding.
RavelledSeedIdxUnpadded(sp, shp, ord) ==
    IF ord = "C" THEN sp[1] * (shp[2] + 2) + sp[2] ELSE sp[1] + sp[2] * (shp[1] + 2)

\* `[i + 1 for i in seed_point]`, ravelled in the padded shape.
RavelledSeedIdx(sp, shp, ord) ==
    RavelMultiIndex(<<sp[1] + 1, sp[2] + 1>>, PaddedShape(shp), ord)

\* np.pad(image, 1, mode='constant', constant_values=image.min())
IsBorder(q, pshp) ==
    q[1] = 0 \/ q[2] = 0 \/ q[1] = pshp[1] - 1 \/ q[2] = pshp[2] - 1
PadImage(img, shp) ==
    [q \in Positions(PaddedShape(shp)) |->
        IF IsBorder(q, PaddedShape(shp)) THEN ArrayMin(img)
        ELSE img[<<q[1] - 1, q[2] - 1>>]]

\* np.zeros(working_image.shape, dtype=np.uint8, order=order)
ZeroFlags(pshp) == [q \in Positions(pshp) |-> 0]

\* _set_border_values(flags, value): the outer one-cell ring is set to value.
SetBorderValues(arr, pshp, value) ==
    [q \in DOMAIN arr |-> IF IsBorder(q, pshp) THEN value ELSE arr[q]]

\* Footprints are 3 x 3 arrays of 0 and 1.
FootprintShape == <<3, 3>>
FootprintPositions == Positions(FootprintShape)
\* A variant of FootprintCenter that takes the first cell as centre.
FootprintCorner == <<0, 0>>
\* `center=((1,) * image.ndim)`
FootprintCenter == <<1, 1>>

\* ndi.generate_binary_structure(2, conn): members are the cells whose squared
\* distance to the centre is at most conn.
GenerateBinaryStructure(conn) ==
    [p \in FootprintPositions |->
        IF (p[1] - 1) * (p[1] - 1) + (p[2] - 1) * (p[2] - 1) <= conn THEN 1 ELSE 0]

\* _resolve_neighborhood(footprint, connectivity, image.ndim)
ResolveNeighborhood(fp, conn, ndim) ==
    IF fp = None
    THEN GenerateBinaryStructure(IF conn = None THEN ndim ELSE The(conn))
    ELSE The(fp)

\* The footprint's cells in row-major order.
FootprintSeq ==
    << <<0, 0>>, <<0, 1>>, <<0, 2>>,
       <<1, 0>>, <<1, 1>>, <<1, 2>>,
       <<2, 0>>, <<2, 1>>, <<2, 2>> >>

\* The linear-index delta of a coordinate offset d in an array of shape pshp.
RavelOffset(d, pshp, ord) ==
    IF ord = "C" THEN d[1] * pshp[2] + d[2] ELSE d[1] + d[2] * pshp[1]

\* _offsets_to_raveled_neighbors(shape, footprint, center, order): one signed
\* delta per footprint member other than the centre.
OffsetsToRaveledNeighbors(pshp, fp, center, ord) ==
    LET members == SelectSeq(FootprintSeq, LAMBDA p : fp[p] # 0 /\ p # center)
    IN  [k \in 1 .. Len(members) |->
            RavelOffset(<<members[k][1] - center[1], members[k][2] - center[2]>>,
                        pshp, ord)]

\* Arithmetic on a scalar of the image dtype wraps around.
WrapInt(x) == ((x - TypeMin) % TypeSpan) + TypeMin

\* A variant of HighTol that takes the larger of the two.
HighTolByMax(sv, tol) == Max2(TypeMax, WrapInt(sv + tol))

\* `high_tol = min(max_value, seed_value + tolerance)`
HighTol(sv, tol) == Min2(TypeMax, WrapInt(sv + tol))
\* `low_tol = max(min_value, seed_value - tolerance)`
LowTol(sv, tol) == Max2(TypeMin, WrapInt(sv - tol))

\* A variant of InteriorView that slices from the first cell.
InteriorViewFromZero(flg, shp, ord) ==
    [p \in Positions(shp) |->
        flg[IF ord = "C" THEN p[1] * (shp[2] + 2) + p[2]
            ELSE p[1] + p[2] * (shp[1] + 2)] # 0]

\* `flags[(slice(1, -1),) * image.ndim].view(bool)`
InteriorView(flg, shp, ord) ==
    [p \in Positions(shp) |->
        flg[RavelMultiIndex(<<p[1] + 1, p[2] + 1>>, PaddedShape(shp), ord)] # 0]

\* ------------------------------------------------------------------ flood: kernel
\* The membership predicates of the two traversals: _flood_fill_equal tests
\* `value == seed_value`, _flood_fill_tolerance `low_tol <= value <= high_tol`.
FloodFillEqualMatch(v, sv) == v = sv
FloodFillToleranceMatch(v, lo, hi) == lo <= v /\ v <= hi

\* A variant of Expands that rejects the border ring only, not the cells
\* already in the region.
ExpandsUnlessBorder(flg, idx, matches) == flg[idx] # 2 /\ matches

\* A popped index is expanded iff it is still unvisited (which rules out the
\* border ring, flagged 2) and its value matches.
Expands(flg, idx, matches) == flg[idx] = 0 /\ matches

\* The indices pushed when idx is expanded: every neighbor offset applied to
\* the current linear index.
NeighborsOf(idx, offs) == [k \in 1 .. Len(offs) |-> idx + offs[k]]

\* ------------------------------------------------------------------ flood: inputs
\* The image of the docstring examples.
DocShape == <<4, 7>>
DocImage ==
    [p \in Positions(DocShape) |->
        IF p[1] \in {1, 2} /\ p[2] \in {1, 2} THEN 1
        ELSE IF p = <<3, 0>> THEN 1
        ELSE IF p[1] \in {1, 2} /\ p[2] \in {4, 5} THEN 2
        ELSE IF p = <<3, 6>> THEN 3
        ELSE 0]

\* Shapes of the enumerated images; two of them have a zero-length axis.
SmallShapes == {<<2, 2>>, <<1, 3>>}
EmptyShapes == {<<0, 2>>, <<2, 0>>}
Vals == (TypeMax - MaxVal) .. TypeMax
Layouts == {"C", "F"}

\* The calls made on a view that is not contiguous: a seed inside the image,
\* the default footprint, no tolerance or a tolerance of 1.
ViewCall(shp, sp, fp, conn, tol) ==
    /\ shp \in SmallShapes
    /\ sp \in Positions(shp)
    /\ fp = None
    /\ conn \in {None, Some(1)}
    /\ tol \in {None, Some(1)}

\* Seed coordinates on an axis of extent n: every valid index, negative ones
\* included, and one index past either end.
SeedCoords(n) == (0 - n - 1) .. n
SeedPoints(shp) == SeedCoords(shp[1]) \X SeedCoords(shp[2])

\* An explicit footprint that is not symmetric: the right and the lower
\* neighbour only.
RightDownFootprint ==
    [p \in FootprintPositions |-> IF p \in {<<1, 1>>, <<1, 2>>, <<2, 1>>} THEN 1 ELSE 0]
\* The footprint / connectivity argument pairs tried; connectivity is ignored
\* when a footprint is given.
Neighborhoods ==
    { [fp |-> None, conn |-> None],
      [fp |-> None, conn |-> Some(1)],
      [fp |-> None, conn |-> Some(2)],
      [fp |-> Some(RightDownFootprint), conn |-> Some(1)] }
Tolerances == {None} \cup {Some(t) : t \in 0 .. MaxTol}
NewValues == {0, 5}

\* The calls of the docstring examples, on DocImage.
DocCalls ==
    { [seed |-> <<1, 1>>, conn |-> None, tol |-> None],
      [seed |-> <<1, 1>>, conn |-> Some(1), tol |-> None],
      [seed |-> <<0, 0>>, conn |-> None, tol |-> Some(1)] }

\* ------------------------------------------------------------------ flood: actions
FloodLocalsUnset ==
    /\ order = None
    /\ seed_value = None
    /\ start_point = None
    /\ footprint = << >>
    /\ working_image = << >>
    /\ ravelled_seed_idx = None
    /\ neighbor_offsets = << >>
    /\ low_tol = None
    /\ high_tol = None

\* A call of flood(image, seed_point, footprint=, connectivity=, tolerance=),
\* made directly or from flood_fill.
InitFlood ==
    /\ pc = "call"
    /\ \/ \* a non-empty image and a seed given by non-negative indices
          /\ shape \in SmallShapes
          /\ image \in [Positions(shape) -> Vals]
          /\ seed_point \in Positions(shape)
          /\ \E n \in Neighborhoods : footprint_arg = n.fp /\ connectivity = n.conn
          /\ tolerance \in Tolerances
       \/ \* a non-empty image and a seed with a negative index or an index
          \* past the end of an axis
          /\ shape \in SmallShapes
          /\ image \in [Positions(shape) -> Vals]
          /\ seed_point \in SeedPoints(shape) \ Positions(shape)
          /\ footprint_arg = None
          /\ connectivity = None
          /\ tolerance \in Tolerances
       \/ \* an image with a zero-length axis
          /\ shape \in EmptyShapes
          /\ image \in [Positions(shape) -> Vals]
          /\ seed_point \in SeedPoints(shape)
          /\ \E n \in Neighborhoods : footprint_arg = n.fp /\ connectivity = n.conn
          /\ tolerance \in Tolerances
       \/ \* the docstring examples
          /\ shape = DocShape
          /\ image = DocImage
          /\ footprint_arg = None
          /\ \E c \in DocCalls :
                /\ seed_point = c.seed
                /\ connectivity = c.conn
                /\ tolerance = c.tol
    /\ \/ layout \in Layouts
       \/ /\ layout = "N"
          /\ ViewCall(shape, seed_point, footprint_arg, connectivity, tolerance)
    /\ FloodLocalsUnset
    /\ flags = << >>
    /\ stack = << >>
    /\ mask = None
    /\ error = ""
    /\ filled = None
    /\ new_value = None
    /\ in_place = None
    /\ inplace_arg = None
    /\ result_is_image = None
    /\ RankIdle
    /\ PairIdle

\* `if 0 in image.shape: return np.zeros(image.shape, dtype=bool)`
FloodEmptyShortcut ==
    /\ pc = "call"
    /\ HasZeroAxis(shape)
    /\ order' = Some(RavelOrder(layout, shape))
    /\ mask' = Some([p \in Positions(shape) |-> FALSE])
    /\ pc' = "returned"
    /\ UNCHANGED <<image, floodArgs, seed_value, start_point, footprint,
                   working_image, ravelled_seed_idx, neighbor_offsets, low_tol,
                   high_tol, flags, stack, error, fillVars, rankVars, pairVars>>

\* `seed_value = image[seed_point]` raises IndexError for an index out of range.
FloodSeedIndexError ==
    /\ pc = "call"
    /\ ~HasZeroAxis(shape)
    /\ ~SeedIndexable(seed_point, shape)
    /\ order' = Some(RavelOrder(layout, shape))
    /\ error' = "IndexError"
    /\ pc' = "raised"
    /\ UNCHANGED <<image, floodArgs, seed_value, start_point, footprint,
                   working_image, ravelled_seed_idx, neighbor_offsets, low_tol,
                   high_tol, flags, stack, mask, fillVars, rankVars, pairVars>>

\* Everything flood does before the kernel runs: seed value, wrapped seed,
\* footprint, padded image, seed index, neighbor offsets, flag grid and
\* tolerance bounds.  The kernel starts with the seed index pushed.
FloodSetup ==
    /\ pc = "call"
    /\ ~HasZeroAxis(shape)
    /\ SeedIndexable(seed_point, shape)
    /\ LET ord == RavelOrder(layout, shape)
           sv == ArrayAt(image, seed_point, shape)
           sp == SeedModShape(seed_point, shape)
           fp == ResolveNeighborhood(footprint_arg, connectivity, Len(shape))
           pshp == PaddedShape(shape)
       IN  /\ order' = Some(ord)
           /\ seed_value' = Some(sv)
           /\ start_point' = Some(sp)
           /\ footprint' = fp
           /\ working_image' = Ravel(PadImage(image, shape), pshp, ord)
           /\ ravelled_seed_idx' = Some(RavelledSeedIdx(sp, shape, ord))
           /\ neighbor_offsets' =
                  OffsetsToRaveledNeighbors(pshp, fp, FootprintCenter, ord)
           /\ flags' = Ravel(SetBorderValues(ZeroFlags(pshp), pshp, 2), pshp, ord)
           /\ IF tolerance # None
              THEN /\ high_tol' = Some(HighTol(sv, The(tolerance)))
                   /\ low_tol' = Some(LowTol(sv, The(tolerance)))
              ELSE UNCHANGED <<low_tol, high_tol>>
           /\ stack' = <<RavelledSeedIdx(sp, shape, ord)>>
    /\ pc' = "fill"
    /\ UNCHANGED <<image, floodArgs, mask, error, fillVars, rankVars, pairVars>>

\* One iteration of the kernel's loop: pop an index; if it is unvisited and
\* matches, mark it in-region and push its neighbours.
FillStep ==
    /\ pc = "fill"
    /\ stack # << >>
    /\ LET idx == stack[Len(stack)]
           rest == SubSeq(stack, 1, Len(stack) - 1)
           matches ==
               IF tolerance # None
               THEN FloodFillToleranceMatch(working_image[idx], The(low_tol),
                                            The(high_tol))
               ELSE FloodFillEqualMatch(working_image[idx], The(seed_value))
       IN  IF Expands(flags, idx, matches)
           THEN /\ flags' = [flags EXCEPT ![idx] = 1]
                /\ stack' = rest \o NeighborsOf(idx, neighbor_offsets)
           ELSE /\ flags' = flags
                /\ stack' = rest
    /\ UNCHANGED <<pc, image, floodArgs, floodLocals, mask, error, fillVars, rankVars, pairVars>>

\* The kernel is done when the worklist is empty; flood returns the interior
\* of the flag grid viewed as booleans.
FloodReturn ==
    /\ pc = "fill"
    /\ stack = << >>
    /\ mask' = Some(InteriorView(flags, shape, The(order)))
    /\ pc' = "returned"
    /\ UNCHANGED <<image, floodArgs, floodLocals, flags, stack, error, fillVars, rankVars, pairVars>>

\* A variant of AssignMasked that writes outside the mask.
AssignUnmasked(img, msk, nv) == [p \in DOMAIN img |-> IF msk[p] THEN img[p] ELSE nv]

\* `image[mask] = new_value`
AssignMasked(img, msk, nv) == [p \in DOMAIN img |-> IF msk[p] THEN nv ELSE img[p]]

\* `if inplace is not None: in_place = inplace`
EffectiveInPlace(ip, inplace) == IF inplace # None THEN The(inplace) ELSE ip

\* A variant of CallerImageAfterAssign that never copies.
CallerImageAlwaysAssigned(eff, img, out) == out

\* `if not in_place: image = image.copy()` before `image[mask] = new_value`:
\* the caller's array is written only when no copy was taken.
CallerImageAfterAssign(eff, img, out) == IF eff THEN out ELSE img

\* flood_fill after its call of flood returned: copy the image unless in
\* place, then assign new_value under the mask.
FloodFillAssign ==
    /\ pc = "returned"
    /\ \E nv \in NewValues, ip \in BOOLEAN, dep \in {None, Some(TRUE), Some(FALSE)} :
          LET eff == EffectiveInPlace(ip, dep)
              out == AssignMasked(image, The(mask), nv)
          IN  /\ new_value' = Some(nv)
              /\ inplace_arg' = dep
              /\ in_place' = Some(eff)
              /\ filled' = Some(out)
              /\ image' = CallerImageAfterAssign(eff, image, out)
              /\ result_is_image' = Some(eff)
    /\ pc' = "filled"
    /\ UNCHANGED <<floodArgs, floodLocals, flags, stack, mask, error, rankVars, pairVars>>

NextFlood ==
    \/ FloodEmptyShortcut
    \/ FloodSeedIndexError
    \/ FloodSetup
    \/ FillStep
    \/ FloodReturn
    \/ FloodFillAssign

SpecFlood == InitFlood /\ [][NextFlood]_vars

\* ------------------------------------------------------------------ flood: claims
\* The call has a non-empty image and flood has returned its mask (the image is
\* still as the caller passed it).
FloodReturned == pc = "returned" /\ shape[1] > 0 /\ shape[2] > 0

\* The seed position the claims speak of: each coordinate modulo its extent.
WrappedSeed == <<seed_point[1] % shape[1], seed_point[2] % shape[2]>>

\* q is footprint-adjacent to p: q = p + d for a coordinate offset d of a
\* footprint member other than the centre.  Without a footprint the members
\* are the offsets of squared length at most connectivity (default: 2).
OffsetIsNeighbor(d) ==
    /\ d # <<0, 0>>
    /\ d[1] \in -1 .. 1 /\ d[2] \in -1 .. 1
    /\ IF footprint_arg # None
       THEN The(footprint_arg)[<<d[1] + 1, d[2] + 1>>] # 0
       ELSE d[1] * d[1] + d[2] * d[2] <= (IF connectivity = None THEN 2 ELSE The(connectivity))
IsAdjacent(p, q) == OffsetIsNeighbor(<<q[1] - p[1], q[2] - p[2]>>)

\* The positions whose value passes the membership test of the call.
MatchingPositions ==
    {p \in Positions(shape) :
        IF tolerance = None
        THEN image[p] = image[WrappedSeed]
        ELSE The(low_tol) <= image[p] /\ image[p] <= The(high_tol)}

RECURSIVE GrowRegion(_)
GrowRegion(R) ==
    LET next == R \cup {q \in MatchingPositions : \E p \in R : IsAdjacent(p, q)}
    IN  IF next = R THEN R ELSE GrowRegion(next)

\* The positions reachable from the seed through a chain of adjacent matching
\* positions, the seed included.
ReachableRegion ==
    IF WrappedSeed \in MatchingPositions THEN GrowRegion({WrappedSeed}) ELSE {}

\* C1: for a non-empty image the mask flood returns has the image's shape and
\* is true at a position iff the position is reachable from the seed through
\* a chain of footprint-adjacent positions whose values all match (equal the
\* seed value, or lie in [low_tol, high_tol]).
C1_MaskIsReachableRegion ==
    FloodReturned =>
        /\ DOMAIN The(mask) = Positions(shape)
        /\ \A p \in Positions(shape) :
              /\ The(mask)[p] \in BOOLEAN
              /\ The(mask)[p] <=> p \in ReachableRegion

\* A returned mask that fills more than the seed and leaves out a matching
\* position that no chain reaches.
C1_Witness ==
    /\ FloodReturned
    /\ \E p \in Positions(shape) : p # WrappedSeed /\ The(mask)[p]
    /\ \E p \in MatchingPositions : ~The(mask)[p]

\* C3: for a non-empty image the returned mask is true at the seed position.
C3_SeedIsFilled ==
    FloodReturned => The(mask)[WrappedSeed]

\* C4 as stated: on a non-empty image no seed coordinate makes flood raise,
\* and the fill starts at the coordinates modulo the extents with the value
\* found there.
C4_AnySeedWraps ==
    (shape[1] > 0 /\ shape[2] > 0) =>
        /\ pc # "raised"
        /\ pc \in {"fill", "returned"} =>
              /\ start_point = Some(WrappedSeed)
              /\ seed_value = Some(image[WrappedSeed])

\* C4, amended: a seed coordinate c on an axis of extent n is accepted iff
\* -n <= c < n; then the fill starts at c mod n and the seed value is the image
\* value there.  Any other coordinate raises IndexError when the seed value is
\* read, before any buffer is built.
C4_SeedWrapsWithinRange ==
    (shape[1] > 0 /\ shape[2] > 0 /\ pc # "call") =>
        IF \A a \in 1 .. 2 : (0 - shape[a]) <= seed_point[a] /\ seed_point[a] < shape[a]
        THEN /\ pc # "raised"
             /\ error = ""
             /\ start_point = Some(WrappedSeed)
             /\ ravelled_seed_idx =
                    Some(RavelMultiIndex(<<WrappedSeed[1] + 1, WrappedSeed[2] + 1>>,
                                         <<shape[1] + 2, shape[2] + 2>>, The(order)))
             /\ pc \in {"fill", "returned"} => seed_value = Some(image[WrappedSeed])
        ELSE /\ pc = "raised"
             /\ error = "IndexError"
             /\ flags = << >>
             /\ mask = None

\* A fill started from a seed given with a negative index.
C4_Witness ==
    /\ FloodReturned
    /\ seed_point[1] < 0
    /\ seed_point[2] >= 0
    /\ The(start_point) = <<seed_point[1] + shape[1], seed_point[2]>>
    /\ The(mask)[The(start_point)]

\* C5: with a zero-length axis flood returns a mask of the image's shape with
\* no true cell, whatever the other arguments; the seed is not read and no
\* offsets, padded image, flag grid or worklist are built.
C5_EmptyImageShortcut ==
    ((shape[1] = 0 \/ shape[2] = 0) /\ pc # "call") =>
        /\ pc \in {"returned", "filled"}
        /\ error = ""
        /\ DOMAIN The(mask) = Positions(shape)
        /\ \A p \in DOMAIN The(mask) : ~The(mask)[p]
        /\ seed_value = None
        /\ start_point = None
        /\ ravelled_seed_idx = None
        /\ neighbor_offsets = << >>
        /\ working_image = << >>
        /\ flags = << >>
        /\ stack = << >>

\* flood returned for an image with a zero-length axis and a seed that no
\* index of the image matches.
C5_Witness ==
    /\ pc = "returned"
    /\ shape = <<0, 2>>
    /\ seed_point = <<0, 2>>
    /\ tolerance # None
    /\ mask = Some(<< >>)

\* C6: the tolerance bounds handed to the kernel are the saturated ones,
\* low_tol = max(type_min, seed_value - tolerance) and
\* high_tol = min(type_max, seed_value + tolerance), without wraparound, so
\* type_min <= low_tol <= seed_value <= high_tol <= type_max.
C6_ToleranceBoundsSaturate ==
    (pc = "fill" /\ tolerance # None) =>
        LET sv == The(seed_value)
            t == The(tolerance)
        IN  /\ The(low_tol) = Max2(TypeMin, sv - t)
            /\ The(high_tol) = Min2(TypeMax, sv + t)
            /\ TypeMin <= The(low_tol)
            /\ The(low_tol) <= sv
            /\ sv <= The(high_tol)
            /\ The(high_tol) <= TypeMax

\* C7: in tolerance mode a position is filled only if its value is within
\* tolerance of the seed value (not of a filled neighbour).  In the documented
\* example (seed (0, 0) of value 0, tolerance 1) every cell of value 0 or 1 is
\* filled, the cells of value 2 and 3 are not.
C7_ToleranceAgainstSeedOnly ==
    (FloodReturned /\ tolerance # None) =>
        /\ \A p \in Positions(shape) :
              The(mask)[p] =>
                  /\ image[WrappedSeed] - The(tolerance) <= image[p]
                  /\ image[p] <= image[WrappedSeed] + The(tolerance)
        /\ (image = DocImage /\ seed_point = <<0, 0>> /\ tolerance = Some(1)) =>
              \A p \in Positions(shape) : The(mask)[p] <=> image[p] \in {0, 1}

\* A fill with a tolerance has returned in which an unfilled cell lies next to
\* a filled cell whose value is within the tolerance of it.
C7_Witness ==
    /\ FloodReturned
    /\ tolerance # None
    /\ \E p, q \in Positions(shape) :
          /\ IsAdjacent(p, q)
          /\ The(mask)[p]
          /\ ~The(mask)[q]
          /\ image[q] - image[p] <= The(tolerance)
          /\ image[p] - image[q] <= The(tolerance)

\* The array flood_fill(image, (0, 0), 5, tolerance=1) returns according to
\* the docstring.
DocToleranceFilled ==
    [p \in Positions(DocShape) |->
        IF p[1] \in {1, 2} /\ p[2] \in {4, 5} THEN 2
        ELSE IF p = <<3, 6>> THEN 3
        ELSE 5]

DocToleranceCall ==
    /\ image = DocImage
    /\ seed_point = <<0, 0>>
    /\ tolerance = Some(1)
    /\ footprint_arg = None
    /\ connectivity = None

\* C8 as stated: the fill with tolerance 1 from the 0-valued corner fills
\* every cell except the isolated 3.
C8_FillsAllButTheThree ==
    (FloodReturned /\ DocToleranceCall) =>
        \A p \in Positions(shape) : The(mask)[p] <=> image[p] # 3

\* C8, amended: flood_fill with new value 5 and tolerance 1 from the 0-valued
\* corner replaces the 23 cells of value 0 or 1 and leaves the four cells of
\* value 2 and the isolated 3 as they are.
C8_FillsZerosAndOnes ==
    (pc = "filled" /\ DocToleranceCall /\ new_value = Some(5)) =>
        /\ filled = Some(DocToleranceFilled)
        /\ Cardinality({p \in Positions(shape) : The(filled)[p] = 5}) = 23

C8_Witness ==
    /\ pc = "filled"
    /\ DocToleranceCall
    /\ new_value = Some(5)
    /\ in_place = Some(FALSE)
    /\ The(filled)[<<1, 4>>] = 2
    /\ The(filled)[<<1, 3>>] = 5

AxisOffsets == {<<-1, 0>>, <<1, 0>>, <<0, -1>>, <<0, 1>>}
DiagonalOffsets == {<<-1, -1>>, <<-1, 1>>, <<1, -1>>, <<1, 1>>}
DocBlockOfOnes == {<<1, 1>>, <<1, 2>>, <<2, 1>>, <<2, 2>>}

\* The linear-index delta the claims expect for a coordinate offset d in the
\* padded buffers.
ExpectedDelta(d) ==
    IF The(order) = "C" THEN d[1] * (shape[2] + 2) + d[2]
    ELSE d[1] + d[2] * (shape[1] + 2)

\* C9: without a footprint the neighbours are the four axis neighbours and,
\* unless connectivity is 1, the four diagonal ones (full connectivity is the
\* default).  On the documented grid the fill from (1, 1) covers the 2x2 block
\* of 1s plus the diagonal 1 at (3, 0) under full connectivity, and exactly the
\* block under connectivity 1.
C9_AdjacencyFollowsConnectivity ==
    /\ (pc \in {"fill", "returned"} /\ shape[1] > 0 /\ shape[2] > 0
            /\ footprint_arg = None) =>
          /\ {neighbor_offsets[k] : k \in DOMAIN neighbor_offsets} =
                {ExpectedDelta(d) :
                    d \in AxisOffsets \cup
                          (IF connectivity = Some(1) THEN {} ELSE DiagonalOffsets)}
          /\ Len(neighbor_offsets) = (IF connectivity = Some(1) THEN 4 ELSE 8)
    /\ (FloodReturned /\ image = DocImage /\ seed_point = <<1, 1>>
            /\ tolerance = None /\ footprint_arg = None) =>
          {p \in Positions(shape) : The(mask)[p]} =
              (IF connectivity = Some(1) THEN DocBlockOfOnes
               ELSE DocBlockOfOnes \cup {<<3, 0>>})

\* The documented fill from (1, 1) with connectivity 1 has returned; the lone
\* 1 at (3, 0), a diagonal neighbour of the block, is not in the mask.
C9_Witness ==
    /\ FloodReturned
    /\ image = DocImage
    /\ seed_point = <<1, 1>>
    /\ connectivity = Some(1)
    /\ The(mask)[<<2, 1>>]
    /\ ~The(mask)[<<3, 0>>]

\* C10: flood_fill returns an array of the image's shape holding new_value
\* where flood's mask is true and the original image value elsewhere; the
\* image is not written while the mask is being computed, and the assignment
\* leaves the mask as it is.
C10_FilledIsImageUnderMask ==
    [][ /\ (pc = "returned" /\ pc' = "filled") =>
              /\ DOMAIN The(filled') = Positions(shape)
              /\ \A p \in Positions(shape) :
                    The(filled')[p] = (IF The(mask)[p] THEN The(new_value') ELSE image[p])
              /\ mask' = mask
        /\ (pc' \in {"fill", "returned", "raised"}) =>
              /\ image' = image
              /\ filled' = None
      ]_vars

\* flood_fill returned an array in which some cells were replaced and others
\* kept.
C10_Witness ==
    /\ pc = "filled"
    /\ in_place = Some(FALSE)
    /\ \E p, q \in Positions(shape) :
          /\ The(mask)[p] /\ The(filled)[p] = The(new_value) /\ image[p] # The(new_value)
          /\ ~The(mask)[q] /\ The(filled)[q] = image[q] /\ image[q] # The(new_value)

\* C11: with in_place False and no deprecated inplace argument, flood_fill
\* leaves every cell of the caller's image unchanged and returns a separate
\* array; with in_place True the caller's image is the array that is modified
\* and returned; flood itself never modifies the caller's image.
C11_InPlaceFrame ==
    [][ /\ (pc = "returned" /\ pc' = "filled" /\ inplace_arg' = None
             /\ in_place' = Some(FALSE)) =>
              /\ image' = image
              /\ result_is_image' = Some(FALSE)
        /\ (pc = "returned" /\ pc' = "filled" /\ inplace_arg' = None
             /\ in_place' = Some(TRUE)) =>
              /\ result_is_image' = Some(TRUE)
              /\ image' = The(filled')
              /\ image' = AssignMasked(image, The(mask), The(new_value'))
        /\ (pc \in {"call", "fill"}) => image' = image
      ]_vars

\* An in-place fill of the documented image has written new_value into the
\* caller's array, which is the array returned.
C11_Witness ==
    /\ pc = "filled"
    /\ inplace_arg = None
    /\ in_place = Some(TRUE)
    /\ shape = DocShape
    /\ image # DocImage
    /\ image = The(filled)
    /\ result_is_image = Some(TRUE)

\* ------------------------------------------------------------------ rank: front end
\* No flood call is under way.
FloodIdle ==
    /\ pc = "idle"
    /\ image = << >>
    /\ shape = <<0, 0>>
    /\ layout = "C"
    /\ seed_point = <<0, 0>>
    /\ footprint_arg = None
    /\ connectivity = None
    /\ tolerance = None
    /\ FloodLocalsUnset
    /\ flags = << >>
    /\ stack = << >>
    /\ mask = None
    /\ error = ""
    /\ filled = None
    /\ new_value = None
    /\ in_place = None
    /\ inplace_arg = None
    /\ result_is_image = None

\* image.max()
RECURSIVE SetMax(_)
SetMax(S) ==
    LET x == CHOOSE y \in S : TRUE
    IN  IF S = {x} THEN x ELSE Max2(x, SetMax(S \ {x}))
ArrayMax(img) == SetMax({img[p] : p \in DOMAIN img})

\* A variant of PreprocessFootprint that compares with `>=`.
PreprocessFootprintNonNegative(fp) == [p \in DOMAIN fp |-> IF fp[p] >= 0 THEN 255 ELSE 0]

\* `img_as_ubyte(footprint > 0)`: True becomes 255, False 0.
PreprocessFootprint(fp) == [p \in DOMAIN fp |-> IF fp[p] > 0 THEN 255 ELSE 0]

\* A variant of NBins that takes the maximum itself as the bin count.
NBinsIsMaximum(dtype, img) ==
    IF dtype \in {"uint8", "int8"} THEN 256 ELSE Max2(3, ArrayMax(img))

\* The bin count: 256 for an 8-bit image, else max(3, image.max()) + 1.
NBins(dtype, img) ==
    IF dtype \in {"uint8", "int8"} THEN 256 ELSE Max2(3, ArrayMax(img)) + 1

\* The positions of an array of one, two or three dimensions.
PositionsND(shp) ==
    CASE Len(shp) = 1 -> {<<i>> : i \in 0 .. shp[1] - 1}
      [] Len(shp) = 2 -> Positions(shp)
      [] Len(shp) = 3 ->
            {<<pl, r, c>> : pl \in 0 .. shp[1] - 1, r \in 0 .. shp[2] - 1,
                            c \in 0 .. shp[3] - 1}

\* A float64 image holds the values 0, 1/FloatSteps, ..., 1; the model keeps
\* the numerator.
FloatSteps == 2

\* img_as_ubyte of a float in [0, 1]: multiply by 255, round half to even,
\* clip to 0 .. 255.
FloatToUbyte(h) ==
    LET n == 255 * h
        q == n \div FloatSteps
        r == n % FloatSteps
        rounded == IF 2 * r < FloatSteps THEN q
                   ELSE IF 2 * r > FloatSteps THEN q + 1
                   ELSE IF q % 2 = 0 THEN q ELSE q + 1
    IN  Max2(0, Min2(255, rounded))
ImgAsUbyte(img) == [p \in DOMAIN img |-> FloatToUbyte(img[p])]

\* `if input_dtype not in (np.uint8, np.uint16): image = img_as_ubyte(image)`
ProcessedImage(dtype, img) ==
    IF dtype \in {"uint8", "uint16"} THEN img
    ELSE IF dtype = "bool" THEN [p \in DOMAIN img |-> 255 * img[p]]
    ELSE ImgAsUbyte(img)
ProcessedDtype(dtype) == IF dtype \in {"uint8", "uint16"} THEN dtype ELSE "uint8"

\* Whether the local name `image` still refers to the caller's array after
\* the conversion and np.ascontiguousarray: both hand back their argument
\* only if there is nothing to convert.
ProcessedIsArgument(dtype, contiguous) == dtype \in {"uint8", "uint16"} /\ contiguous

\* `out.reshape(out.shape + (pixel_size,))` is given an array of the image's
\* shape: it fails unless pixel_size is 1.
OutReshapeFails(out_arg, pixel_size) == out_arg # "none" /\ pixel_size # 1

\* The exception _preprocess_input or _handle_input_3D raises, "" if none:
\* _preprocess_input refuses a bool image; then the footprint's dimensions
\* are compared, then `image is out`, and a given out is reshaped last.
PreprocessError(img_ndim, dtype, contiguous, fp_ndim, out_arg, out_dtype, pixel_size) ==
    IF img_ndim = 2 /\ (dtype = "bool" \/ out_dtype = Some("bool")) THEN "ValueError"
    ELSE IF fp_ndim # img_ndim THEN "DimensionMismatchError"
    ELSE IF out_arg = "image" /\ ProcessedIsArgument(dtype, contiguous)
    THEN "InPlaceNotAllowedError"
    ELSE IF OutReshapeFails(out_arg, pixel_size) THEN "ValueError"
    ELSE ""

\* img_as_ubyte of one value of an array of the given dtype: uint8 is handed
\* on as it is, a wider unsigned integer is divided by 256 (its upper eight
\* bits are kept), True becomes 255, a float in [0, 1] is scaled to 0 .. 255.
UbyteOf(dtype, v) ==
    CASE dtype = "uint8" -> v
      [] dtype = "uint16" -> v \div 256
      [] dtype = "bool" -> 255 * v
      [] dtype = "float64" -> FloatToUbyte(v)

\* A variant of ProcessedMask that includes every pixel whose mask value is
\* above 0.
ProcessedMaskAboveZero(msk, mask_dtype) ==
    IF msk = None THEN None
    ELSE Some([p \in DOMAIN The(msk) |-> IF The(msk)[p] > 0 THEN 1 ELSE 0])

\* `if mask is not None: mask = img_as_ubyte(mask)`; None stays None.
ProcessedMask(msk, mask_dtype) ==
    IF msk = None THEN None
    ELSE Some([p \in DOMAIN The(msk) |-> UbyteOf(mask_dtype, The(msk)[p])])

\* The dtype of the output buffer: a given out is kept (the caller's image,
\* or an array of its dtype); else `if out_dtype is None: out_dtype =
\* image.dtype`, the dtype of the processed image, and the buffer is
\* allocated with it.
OutDtype(dtype, out_arg, out_dtype) ==
    IF out_arg # "none" THEN dtype
    ELSE IF out_dtype = None THEN ProcessedDtype(dtype)
    ELSE The(out_dtype)

\* What _preprocess_input returns; of the output buffer, its dtype.
PreprocessInput(img, dtype, fp, out_arg, msk, mask_dtype, out_dtype, pixel_size) ==
    [ image |-> ProcessedImage(dtype, img),
      footprint |-> PreprocessFootprint(fp),
      mask |-> ProcessedMask(msk, mask_dtype),
      n_bins |-> NBins(ProcessedDtype(dtype), ProcessedImage(dtype, img)),
      out_dtype |-> OutDtype(dtype, out_arg, out_dtype),
      pixel_size |-> pixel_size ]

\* What _handle_input_3D returns: as _preprocess_input, but an absent mask
\* becomes an array of ones.
HandleInput3D(img, dtype, fp, out_arg, msk, mask_dtype, out_dtype, pixel_size) ==
    [ image |-> ProcessedImage(dtype, img),
      footprint |-> PreprocessFootprint(fp),
      mask |-> IF msk = None THEN Some([p \in DOMAIN img |-> 1])
               ELSE ProcessedMask(msk, mask_dtype),
      n_bins |-> NBins(ProcessedDtype(dtype), ProcessedImage(dtype, img)),
      out_dtype |-> OutDtype(dtype, out_arg, out_dtype),
      pixel_size |-> pixel_size ]

\* _preprocess_input followed by the call of the kernel in
\* _apply_scalar_per_pixel: what the kernel receives.
ApplyScalarPerPixelArgs(img, dtype, fp, out_arg, msk, mask_dtype, shift_x, shift_y, out_dtype) ==
    [shift_x |-> shift_x, shift_y |-> shift_y]
        @@ PreprocessInput(img, dtype, fp, out_arg, msk, mask_dtype, out_dtype, 1)

\* _apply_scalar_per_pixel_3D
ApplyScalarPerPixel3DArgs(img, dtype, fp, out_arg, msk, mask_dtype, shift_x, shift_y, shift_z, out_dtype) ==
    [shift_x |-> shift_x, shift_y |-> shift_y, shift_z |-> shift_z]
        @@ HandleInput3D(img, dtype, fp, out_arg, msk, mask_dtype, out_dtype, 1)

\* windowed_histogram: `if n_bins is None: n_bins = int(image.max()) + 1`,
\* the length of the output vector of every pixel; int() truncates a float
\* maximum.
WindowedHistogramBins(n_bins_arg, dtype, img) ==
    IF n_bins_arg # None THEN The(n_bins_arg)
    ELSE IF dtype = "float64" THEN (ArrayMax(img) \div FloatSteps) + 1
    ELSE ArrayMax(img) + 1

\* _apply_vector_per_pixel: as _apply_scalar_per_pixel, with an output of
\* pixel_size values per pixel.
ApplyVectorPerPixelArgs(img, dtype, fp, out_arg, msk, mask_dtype, shift_x, shift_y, out_dtype, pixel_size) ==
    [shift_x |-> shift_x, shift_y |-> shift_y]
        @@ PreprocessInput(img, dtype, fp, out_arg, msk, mask_dtype, out_dtype, pixel_size)

\* noise_filter: `centre_r = int(footprint.shape[0] / 2) + shift_y`,
\* `centre_c = int(footprint.shape[1] / 2) + shift_x` and, for a 3-D image,
\* `centre_z = int(footprint.shape[2] / 2) + shift_z`.
NoiseCentre(fshp, img_ndim, shift_x, shift_y, shift_z) ==
    IF img_ndim = 2
    THEN <<(fshp[1] \div 2) + shift_y, (fshp[2] \div 2) + shift_x>>
    ELSE <<(fshp[1] \div 2) + shift_y, (fshp[2] \div 2) + shift_x,
           (fshp[3] \div 2) + shift_z>>

\* noise_filter raises IndexError if the footprint has no such axis
\* (`footprint.shape[1]`) or if `footprint_cpy[centre_r, centre_c] = 0` is
\* given an index outside -extent .. extent - 1.
NoiseIndexError(fshp, img_ndim, shift_x, shift_y, shift_z) ==
    \/ Len(fshp) < img_ndim
    \/ \E i \in 1 .. img_ndim :
          ~IndexInRange(NoiseCentre(fshp, img_ndim, shift_x, shift_y, shift_z)[i], fshp[i])

\* `footprint_cpy = footprint.copy(); footprint_cpy[centre_r, centre_c] = 0`:
\* negative indices count from the end, and axes beyond those indexed are
\* assigned whole.
NoiseFootprint(fp, fshp, ctr) ==
    [m \in DOMAIN fp |->
        IF \A i \in 1 .. Len(ctr) : m[i] = NormIndex(ctr[i], fshp[i]) THEN 0 ELSE fp[m]]

\* The footprint a filter hands on: noise_filter's copy, else the argument.
PassedFootprint(func, fp, fshp, img_ndim, shift_x, shift_y, shift_z) ==
    IF func = "noise_filter"
    THEN NoiseFootprint(fp, fshp, NoiseCentre(fshp, img_ndim, shift_x, shift_y, shift_z))
    ELSE fp

\* The pixel_size a filter asks for: windowed_histogram's n_bins, else 1.
FilterPixelSize(func, n_bins_arg, dtype, img) ==
    IF func = "windowed_histogram" THEN WindowedHistogramBins(n_bins_arg, dtype, img)
    ELSE 1

\* The out_dtype a filter asks for: entropy and windowed_histogram pass
\* `out_dtype=np.double`, the others leave it None.
FilterOutDtype(func) ==
    IF func \in {"entropy", "windowed_histogram"} THEN Some("float64") ELSE None

\* The exception a filter call raises before its kernel is called, "" if
\* none.
FilterError(func, img, shp, dtype, contiguous, fshp, out_arg, shift_x, shift_y, shift_z, n_bins_arg) ==
    IF func = "noise_filter" /\ NoiseIndexError(fshp, Len(shp), shift_x, shift_y, shift_z)
    THEN "IndexError"
    ELSE PreprocessError(Len(shp), dtype, contiguous, Len(fshp), out_arg,
                         FilterOutDtype(func),
                         FilterPixelSize(func, n_bins_arg, dtype, img))

\* The public filter functions: each hands its kernel and its arguments to
\* _apply_scalar_per_pixel or, for an image that is not 2-D, to
\* _apply_scalar_per_pixel_3D; windowed_histogram to _apply_vector_per_pixel.
FilterCall(func, img, shp, dtype, fp, fshp, out_arg, msk, mask_dtype, shift_x, shift_y, shift_z, n_bins_arg) ==
    LET passed == PassedFootprint(func, fp, fshp, Len(shp), shift_x, shift_y, shift_z)
        out_dtype == FilterOutDtype(func)
    IN  [func |-> func] @@
        (IF func = "windowed_histogram"
         THEN ApplyVectorPerPixelArgs(img, dtype, passed, out_arg, msk, mask_dtype,
                                      shift_x, shift_y, out_dtype,
                                      WindowedHistogramBins(n_bins_arg, dtype, img))
         ELSE IF Len(shp) = 2
         THEN ApplyScalarPerPixelArgs(img, dtype, passed, out_arg, msk, mask_dtype,
                                      shift_x, shift_y, out_dtype)
         ELSE ApplyScalarPerPixel3DArgs(img, dtype, passed, out_arg, msk, mask_dtype,
                                        shift_x, shift_y, shift_z, out_dtype))

\* ------------------------------------------------------------------ rank: kernel
\* The footprint cell taken as the window centre: half the extent plus the
\* shift, per axis.
KernelCentre(fshp, shift_x, shift_y) ==
    <<(fshp[1] \div 2) + shift_y, (fshp[2] \div 2) + shift_x>>

\* The centre must lie inside the footprint.
CentreInside(fshp, ctr) ==
    0 <= ctr[1] /\ ctr[1] < fshp[1] /\ 0 <= ctr[2] /\ ctr[2] < fshp[2]

\* The same for a 3-D footprint: shift_z moves the centre along the planes,
\* shift_y along the rows, shift_x along the columns.
KernelCentre3D(fshp, shift_x, shift_y, shift_z) ==
    <<(fshp[1] \div 2) + shift_z, (fshp[2] \div 2) + shift_y, (fshp[3] \div 2) + shift_x>>
CentreInside3D(fshp, ctr) == \A i \in 1 .. 3 : 0 <= ctr[i] /\ ctr[i] < fshp[i]

\* Whether the kernel accepts the centre of the call k.
KernelCentreInside(k, fshp) ==
    IF Len(fshp) = 2
    THEN CentreInside(fshp, KernelCentre(fshp, k.shift_x, k.shift_y))
    ELSE CentreInside3D(fshp, KernelCentre3D(fshp, k.shift_x, k.shift_y, k.shift_z))

\* The members of the footprint: its nonzero cells.
FootprintMembers(fp) == {m \in DOMAIN fp : fp[m] # 0}

\* The image coordinate the footprint cell m covers when the window centre is
\* at <<r, c>>.
WindowPixel(r, c, m, ctr) == <<r + m[1] - ctr[1], c + m[2] - ctr[2]>>

\* A coordinate contributes iff it is inside the image and inside the mask; an
\* absent mask includes the whole image.
Contributes(q, shp, msk) ==
    q \in Positions(shp) /\ (msk = None \/ The(msk)[q] # 0)

\* The contributing pixels covered by a set of footprint cells when the
\* window centre is at <<r, c>>.
CoveredPixels(cells, r, c, ctr, shp, msk) ==
    {q \in {WindowPixel(r, c, m, ctr) : m \in cells} : Contributes(q, shp, msk)}

\* The local histogram and its two updates, applied to a set of pixels.
EmptyHist(n_bins) == [b \in 0 .. n_bins - 1 |-> 0]
HistInclude(h, img, pixels) ==
    [b \in DOMAIN h |-> h[b] + Cardinality({q \in pixels : img[q] = b})]
HistExclude(h, img, pixels) ==
    [b \in DOMAIN h |-> h[b] - Cardinality({q \in pixels : img[q] = b})]

\* ---- the statistics, each a function of the histogram, the population and
\* ---- the value g of the pixel at the window centre
PopulatedBins(h) == {b \in DOMAIN h : h[b] > 0}

\* A variant of KernelMaximum that answers the smallest populated bin.
KernelMaximumLowest(h) == IF PopulatedBins(h) = {} THEN 0 ELSE SetMin(PopulatedBins(h))

\* A variant of KernelMinimum that answers the last bin for an empty window.
KernelMinimumEmptyIsLast(h) ==
    IF PopulatedBins(h) = {} THEN SetMax(DOMAIN h) ELSE SetMin(PopulatedBins(h))

\* minimum / maximum: the smallest / largest populated bin, 0 for an empty
\* window.
KernelMinimum(h) == IF PopulatedBins(h) = {} THEN 0 ELSE SetMin(PopulatedBins(h))
KernelMaximum(h) == IF PopulatedBins(h) = {} THEN 0 ELSE SetMax(PopulatedBins(h))

\* Sums over a set of bins: of the counts, or of value times count.
RECURSIVE SumBins(_, _, _)
SumBins(h, bins, weighted) ==
    IF bins = {} THEN 0
    ELSE LET b == CHOOSE x \in bins : TRUE
         IN  (IF weighted THEN b * h[b] ELSE h[b]) + SumBins(h, bins \ {b}, weighted)

\* The running sum of the window's values.
HistSum(h) == SumBins(h, PopulatedBins(h), TRUE)

\* The number of window pixels of value at most b.
CumulativeCount(h, b) == SumBins(h, {i \in PopulatedBins(h) : i <= b}, FALSE)

\* A variant of KernelThreshold that also answers 1 at equality.
KernelThresholdAtLeast(h, population, g) ==
    IF population > 0 /\ g * population >= HistSum(h) THEN 1 ELSE 0

\* threshold: 1 if the pixel is greater than the local mean, else 0.
KernelThreshold(h, population, g) ==
    IF population > 0 /\ g * population > HistSum(h) THEN 1 ELSE 0

\* A variant of KernelMedian whose cumulative count must exceed half the
\* population.
KernelMedianAbove(h, population) ==
    IF population = 0 THEN 0
    ELSE SetMin({b \in DOMAIN h : 2 * CumulativeCount(h, b) > population})

\* median: the bin at which the cumulative count first reaches
\* ceil(population / 2).
KernelMedian(h, population) ==
    IF population = 0 THEN 0
    ELSE SetMin({b \in DOMAIN h : 2 * CumulativeCount(h, b) >= population})

\* A variant of KernelEnhanceContrast in which a tie gives the maximum.
KernelEnhanceContrastTieMax(h, population, g) ==
    IF population = 0 THEN 0
    ELSE IF KernelMaximum(h) - g <= g - KernelMinimum(h)
         THEN KernelMaximum(h) ELSE KernelMinimum(h)

\* enhance_contrast: "the local maximum if the pixel gray value is closer to
\* the local maximum than the local minimum.  Otherwise it is replaced by
\* the local minimum."
KernelEnhanceContrast(h, population, g) ==
    IF population = 0 THEN 0
    ELSE IF KernelMaximum(h) - g < g - KernelMinimum(h)
         THEN KernelMaximum(h) ELSE KernelMinimum(h)

\* sum: the running sum, wrapped to the width of an integer output dtype.
KernelSum(h, out_dtype) ==
    CASE out_dtype = "uint8" -> HistSum(h) % 256
      [] out_dtype = "uint16" -> HistSum(h) % 65536
      [] OTHER -> HistSum(h)

\* gradient: the largest populated bin minus the smallest.
KernelGradient(h) == KernelMaximum(h) - KernelMinimum(h)

\* autolevel: (pixel - min) * (n_bins - 1) / (max - min), cut to an integer;
\* the pixel itself when max = min.
KernelAutolevel(h, n_bins, g) ==
    LET lo == KernelMinimum(h)
        hi == KernelMaximum(h)
    IN  IF hi = lo THEN g ELSE ((g - lo) * (n_bins - 1)) \div (hi - lo)

\* equalize: the cumulative distribution of the window at the pixel's value,
\* scaled to the bins: (n_bins - 1) * (count of values <= pixel) / population;
\* 0 for an empty window.
KernelEqualize(h, population, n_bins, g) ==
    IF population = 0 THEN 0
    ELSE ((n_bins - 1) * CumulativeCount(h, g)) \div population

\* subtract_mean: (pixel - mean) / 2 + (n_bins / 2 - 1) with the mean taken
\* exactly, cut to an integer and clipped to 0 .. n_bins - 1; 0 for an empty
\* window.
KernelSubtractMean(h, population, n_bins, g) ==
    IF population = 0 THEN 0
    ELSE LET offset == (n_bins \div 2) - 1
             value == (g * population - HistSum(h) + 2 * population * offset)
                          \div (2 * population)
         IN  Max2(0, Min2(n_bins - 1, value))

\* The product of the window's values over a set of bins, each taken as
\* often as it occurs.
RECURSIVE ProductBins(_, _)
ProductBins(h, bins) ==
    IF bins = {} THEN 1
    ELSE LET b == CHOOSE x \in bins : TRUE
         IN  (b ^ h[b]) * ProductBins(h, bins \ {b})

\* geometric_mean: exp of the mean of the logs of the window's nonzero
\* values, that is the root of their product, cut to an integer; 0 if the
\* window has no nonzero value.
KernelGeometricMean(h) ==
    LET bins == PopulatedBins(h) \ {0}
        count == SumBins(h, bins, FALSE)
        product == ProductBins(h, bins)
    IN  IF bins = {} THEN 0
        ELSE SetMax({r \in 1 .. SetMax(bins) : r ^ count <= product})

\* The inter-class variance w0 * w1 * (mu0 - mu1)^2 of the split of the
\* histogram after bin t, as a fraction <<numerator, denominator>>: bins up to
\* t against the bins above it.
OtsuVariance(h, population, t) ==
    LET w0 == CumulativeCount(h, t)
        w1 == population - w0
        s0 == SumBins(h, {i \in PopulatedBins(h) : i <= t}, TRUE)
        s1 == HistSum(h) - s0
        d == s0 * w1 - s1 * w0
    IN  IF w0 = 0 \/ w1 = 0 THEN <<0, 1>> ELSE <<d * d, w0 * w1>>

\* otsu: the bin t of 0 .. n_bins - 1 that maximises the inter-class variance,
\* the first of them in the scan's order.
KernelOtsu(h, population, n_bins) ==
    LET v == [t \in 0 .. n_bins - 1 |-> OtsuVariance(h, population, t)]
    IN  SetMin({t \in 0 .. n_bins - 1 :
                   \A u \in 0 .. n_bins - 1 : v[u][1] * v[t][2] <= v[t][1] * v[u][2]})

\* mean: the running sum divided by the population, in the integer type of
\* the output; 0 for an empty window.
KernelMean(h, population) ==
    IF population = 0 THEN 0 ELSE HistSum(h) \div population

\* modal: the bin with the highest count, the lowest of them when several
\* share it (bin 0 when every count is 0).
KernelModal(h) ==
    SetMin({b \in DOMAIN h : \A i \in DOMAIN h : h[i] <= h[b]})

\* A variant of KernelMajority in which a later bin of equal count replaces
\* the candidate.
KernelMajorityLastTie(h) ==
    CHOOSE b \in DOMAIN h :
        /\ \A i \in DOMAIN h : i < b => h[i] <= h[b]
        /\ \A i \in DOMAIN h : i > b => h[i] < h[b]

\* majority: the candidate left by a pass over the bins in ascending order
\* in which a bin replaces the candidate only with a strictly higher count.
KernelMajority(h) ==
    CHOOSE b \in DOMAIN h :
        /\ \A i \in DOMAIN h : i < b => h[i] < h[b]
        /\ \A i \in DOMAIN h : i > b => h[i] <= h[b]

\* log2(n) in thousandths, rounded, for n = 1 .. 9 (the largest footprint
\* has nine members).
Log2Milli == <<0, 1000, 1585, 2000, 2322, 2585, 2807, 3000, 3170>>

\* entropy: -sum p_i log2(p_i) over the populated bins, p_i = count_i /
\* population, that is log2(population) - sum(count_i log2(count_i)) /
\* population; in thousandths of a bit, 0 for an empty window.
KernelEntropy(h, population) ==
    IF population = 0 THEN 0
    ELSE LET RECURSIVE CountLogs(_)
             CountLogs(bins) ==
                 IF bins = {} THEN 0
                 ELSE LET b == CHOOSE x \in bins : TRUE
                      IN  h[b] * Log2Milli[h[b]] + CountLogs(bins \ {b})
         IN  (population * Log2Milli[population] - CountLogs(PopulatedBins(h)))
                \div population

\* noise_filter: the distance from the pixel's value to the nearest populated
\* bin.
KernelNoiseFilter(h, g) ==
    IF PopulatedBins(h) = {} THEN 0
    ELSE SetMin({IF b >= g THEN b - g ELSE g - b : b \in PopulatedBins(h)})

\* windowed_histogram: the vector of the first pixel_size bins, each divided
\* by the population (a fraction <<numerator, denominator>>), all zero for
\* an empty window.
KernelWindowedHist(h, population, pixel_size) ==
    [i \in 0 .. pixel_size - 1 |->
        IF population = 0 THEN <<0, 1>> ELSE <<h[i], population>>]

\* The value a kernel writes for the window centred at a pixel of value g.
KernelOutput(k, h, population, g) ==
    CASE k.func = "pop" -> population
      [] k.func = "minimum" -> KernelMinimum(h)
      [] k.func = "maximum" -> KernelMaximum(h)
      [] k.func = "threshold" -> KernelThreshold(h, population, g)
      [] k.func = "median" -> KernelMedian(h, population)
      [] k.func = "enhance_contrast" -> KernelEnhanceContrast(h, population, g)
      [] k.func = "noise_filter" -> KernelNoiseFilter(h, g)
      [] k.func = "mean" -> KernelMean(h, population)
      [] k.func = "entropy" -> KernelEntropy(h, population)
      [] k.func = "modal" -> KernelModal(h)
      [] k.func = "majority" -> KernelMajority(h)
      [] k.func = "sum" -> KernelSum(h, k.out_dtype)
      [] k.func = "gradient" -> KernelGradient(h)
      [] k.func = "autolevel" -> KernelAutolevel(h, k.n_bins, g)
      [] k.func = "equalize" -> KernelEqualize(h, population, k.n_bins, g)
      [] k.func = "subtract_mean" -> KernelSubtractMean(h, population, k.n_bins, g)
      [] k.func = "geometric_mean" -> KernelGeometricMean(h)
      [] k.func = "otsu" -> KernelOtsu(h, population, k.n_bins)
      [] k.func = "windowed_histogram" -> KernelWindowedHist(h, population, k.pixel_size)

\* The footprint cells whose pixel enters the window when it moves one column
\* in direction dir (their neighbour ahead is no member), and those whose
\* pixel leaves it (their neighbour behind is no member).
EnteringEdge(fp, dir) ==
    {m \in FootprintMembers(fp) : <<m[1], m[2] + dir>> \notin FootprintMembers(fp)}
LeavingEdge(fp, dir) ==
    {m \in FootprintMembers(fp) : <<m[1], m[2] - dir>> \notin FootprintMembers(fp)}

\* The snake path: even rows run left to right, odd rows right to left.
ScanDirection(r) == IF r % 2 = 0 THEN 1 ELSE -1
\* A variant of RowStartColumn that starts every row in the first column.
RowStartColumnFirst(r, shp) == 0
RowStartColumn(r, shp) == IF r % 2 = 0 THEN 0 ELSE shp[2] - 1
RowEndColumn(r, shp) == IF r % 2 = 0 THEN shp[2] - 1 ELSE 0

\* Writing one output cell.
Commit(out, pos, v) ==
    [q \in DOMAIN out \cup {pos} |-> IF q = pos THEN v ELSE out[q]]

\* ------------------------------------------------------------------ rank: inputs
\* Largest modulus minus one of the enumerated images.
MaxPix == 8
\* Shifts tried are -MaxShift .. MaxShift on either axis.
MaxShift == 1

RankShapes == {<<3, 3>>, <<2, 4>>}

\* Cell <<r, c>> holds its row-major rank modulo m: from the constant image
\* (m = 1) to the image of pairwise different values.
RankImages(shp) ==
    {[p \in Positions(shp) |-> (p[1] * shp[2] + p[2]) % m] : m \in 1 .. MaxPix + 1}

FootprintOf(fshp, members) ==
    [shape |-> fshp, cells |-> [p \in Positions(fshp) |-> IF p \in members THEN 1 ELSE 0]]

RankFootprints ==
    { FootprintOf(<<3, 3>>, Positions(<<3, 3>>)),
      FootprintOf(<<1, 3>>, Positions(<<1, 3>>)),
      FootprintOf(<<3, 1>>, Positions(<<3, 1>>)),
      FootprintOf(<<2, 2>>, Positions(<<2, 2>>)),
      FootprintOf(<<2, 3>>, Positions(<<2, 3>>)),
      \* a cross
      FootprintOf(<<3, 3>>, {<<0, 1>>, <<1, 0>>, <<1, 1>>, <<1, 2>>, <<2, 1>>}),
      \* rows with a gap
      FootprintOf(<<3, 3>>, {<<0, 0>>, <<0, 2>>, <<1, 1>>, <<2, 0>>, <<2, 2>>}) }

RankMasks(shp) ==
    { None,
      Some([p \in Positions(shp) |-> 1]),
      Some([p \in Positions(shp) |-> (p[1] + p[2]) % 2]),
      Some([p \in Positions(shp) |-> IF p[2] = 0 THEN 0 ELSE 1]),
      Some([p \in Positions(shp) |-> 0]) }

RankShifts == (0 - MaxShift) .. MaxShift

StatisticFuncs == {"minimum", "maximum", "threshold", "median", "enhance_contrast",
                   "noise_filter", "windowed_histogram"}
AverageFuncs == {"mean", "entropy", "modal", "majority"}

StatisticMasks(shp) ==
    { None,
      Some([p \in Positions(shp) |-> (p[1] + p[2]) % 2]),
      Some([p \in Positions(shp) |-> 0]) }

StatisticShifts == {<<0, 0>>, <<1, 0>>, <<0, -1>>}

\* The dtypes of the masks tried, and for each the masks that are nonzero
\* everywhere (all 1; for float64 the numerator 1 over FloatSteps; for uint16
\* also all 256) and a checkerboard of 0 and 1.
MaskDtypes == {"uint8", "uint16", "bool", "float64"}
MaskArrays(shp, dtype) ==
    { [p \in Positions(shp) |-> 1],
      [p \in Positions(shp) |-> (p[1] + p[2]) % 2] }
    \cup (IF dtype = "uint16" THEN {[p \in Positions(shp) |-> 256]} ELSE {})
MaskFuncs == {"pop", "maximum", "mean", "modal"}

\* windowed_histogram's n_bins: defaulted, or given.
NBinsArgs == {None, Some(2), Some(4)}

\* The 5x5 image of the documented examples: v in the centred 3x3 block, 0
\* around it.
DocBlockImage(v) ==
    [p \in Positions(<<5, 5>>) |->
        IF p[1] \in 1 .. 3 /\ p[2] \in 1 .. 3 THEN v ELSE 0]

\* A C-contiguous image, a uint8 mask if any, no out argument, no shift_z.
RankPlainCall ==
    /\ rk_mask_dtype = "uint8"
    /\ rk_contiguous = TRUE
    /\ rk_out_arg = "none"
    /\ rk_shift_z = 0

RankDtypes == {"uint8", "uint16", "float64"}
OutArgs == {"none", "image", "other"}

\* Cell p holds the sum of its coordinates modulo 3; for float64 that is the
\* numerator over FloatSteps.
ValidationImage(shp) ==
    [p \in PositionsND(shp) |->
        (IF Len(shp) = 2 THEN p[1] + p[2] ELSE p[1] + p[2] + p[3]) % 3]

\* <<shift_x, shift_y>> and <<shift_x, shift_y, shift_z>>
ValidationShifts2D == {<<0, 0>>, <<1, 0>>, <<2, 0>>, <<0, 2>>, <<0, -2>>, <<-2, 0>>, <<0, -5>>}
ValidationShifts3D == {<<0, 0, 0>>, <<2, 0, 0>>, <<0, -2, 0>>, <<0, 0, 2>>, <<0, 1, 0>>,
                       <<0, 0, -1>>}

\* ------------------------------------------------------------------ rank: actions
\* A call pop(image, footprint, mask=, shift_x=, shift_y=) on a 2-D image.
\* pop with every enumerated image, footprint, mask and shift.
ScanCalls ==
    /\ rk_func = "pop"
    /\ rk_shape \in RankShapes
    /\ rk_image \in RankImages(rk_shape)
    /\ rk_dtype = "uint16"
    /\ \E f \in RankFootprints : rk_footprint = f.cells /\ rk_fshape = f.shape
    /\ rk_mask \in RankMasks(rk_shape)
    /\ rk_shift_x \in RankShifts
    /\ rk_shift_y \in RankShifts
    /\ rk_n_bins_arg = None
    /\ RankPlainCall

\* The other filters with every enumerated image and footprint.
StatisticCalls ==
    /\ rk_func \in StatisticFuncs
    /\ rk_shape \in RankShapes
    /\ rk_image \in RankImages(rk_shape)
    /\ rk_dtype = "uint16"
    /\ \E f \in RankFootprints : rk_footprint = f.cells /\ rk_fshape = f.shape
    /\ rk_mask \in StatisticMasks(rk_shape)
    /\ \E sh \in StatisticShifts : rk_shift_x = sh[1] /\ rk_shift_y = sh[2]
    /\ rk_n_bins_arg \in (IF rk_func = "windowed_histogram" THEN NBinsArgs ELSE {None})
    /\ RankPlainCall

\* mean, entropy, modal and majority with every enumerated image and
\* footprint of one shape, without shift.
AverageCalls ==
    /\ rk_func \in AverageFuncs
    /\ rk_shape = <<3, 3>>
    /\ rk_image \in RankImages(rk_shape)
    /\ rk_dtype = "uint16"
    /\ \E f \in RankFootprints : rk_footprint = f.cells /\ rk_fshape = f.shape
    /\ rk_mask \in StatisticMasks(rk_shape)
    /\ rk_shift_x = 0
    /\ rk_shift_y = 0
    /\ rk_n_bins_arg = None
    /\ RankPlainCall

\* Calls with a mask of every dtype, and with none.
MaskCalls ==
    /\ rk_func \in MaskFuncs
    /\ rk_shape = <<3, 3>>
    /\ rk_image \in {[p \in Positions(rk_shape) |-> (p[1] * rk_shape[2] + p[2]) % m] :
                        m \in {1, 2, MaxPix + 1}}
    /\ rk_dtype = "uint16"
    /\ \E f \in RankFootprints : rk_footprint = f.cells /\ rk_fshape = f.shape
    /\ \/ rk_mask = None /\ rk_mask_dtype = "uint8"
       \/ /\ rk_mask_dtype \in MaskDtypes
          /\ \E m \in MaskArrays(rk_shape, rk_mask_dtype) : rk_mask = Some(m)
    /\ rk_shift_x = 0
    /\ rk_shift_y = 0
    /\ rk_n_bins_arg = None
    /\ rk_contiguous = TRUE
    /\ rk_out_arg = "none"
    /\ rk_shift_z = 0

\* The largest value of a uint16 image.
Uint16Max == 65535

\* A call on a uint16 image that holds the largest value of its type; the
\* shift puts the centre outside the footprint, so that the kernel is handed
\* its 65536 bins and returns before it builds a histogram.
WideCalls ==
    /\ rk_func = "pop"
    /\ rk_shape = <<1, 2>>
    /\ rk_image = [p \in Positions(rk_shape) |-> IF p[2] = 1 THEN Uint16Max ELSE 0]
    /\ rk_dtype = "uint16"
    /\ rk_fshape = <<1, 3>>
    /\ rk_footprint = [m \in Positions(rk_fshape) |-> 1]
    /\ rk_mask = None
    /\ rk_shift_x = 2
    /\ rk_shift_y = 0
    /\ rk_n_bins_arg = None
    /\ RankPlainCall

\* sum and gradient of the documented 5x5 image with a centred 3x3 block of
\* ones, and of the same with a block of 255, with a 3x3 square.
SumCalls ==
    /\ rk_func \in {"sum", "gradient"}
    /\ rk_image \in {DocBlockImage(1), DocBlockImage(255)}
    /\ rk_shape = <<5, 5>>
    /\ rk_dtype = "uint8"
    /\ rk_footprint = [p \in Positions(<<3, 3>>) |-> 1]
    /\ rk_fshape = <<3, 3>>
    /\ rk_mask = None
    /\ rk_shift_x = 0
    /\ rk_shift_y = 0
    /\ rk_n_bins_arg = None
    /\ RankPlainCall

\* autolevel, equalize, subtract_mean, geometric_mean and otsu with every
\* enumerated image and a footprint that holds its centre, without mask or
\* shift.
LevelFuncs == {"autolevel", "equalize", "subtract_mean", "geometric_mean", "otsu"}
LevelCalls ==
    /\ rk_func \in LevelFuncs
    /\ rk_shape = <<3, 3>>
    /\ rk_image \in RankImages(rk_shape)
    /\ rk_dtype = "uint16"
    /\ rk_fshape \in {<<3, 3>>, <<1, 3>>}
    /\ rk_footprint = [m \in Positions(rk_fshape) |-> 1]
    /\ rk_mask = None
    /\ rk_shift_x = 0
    /\ rk_shift_y = 0
    /\ rk_n_bins_arg = None
    /\ RankPlainCall

\* Calls on a bool image, in two and in three dimensions.
BoolCalls ==
    /\ rk_func = "pop"
    /\ rk_shape \in {<<2, 3>>, <<2, 2, 2>>}
    /\ rk_image = [p \in PositionsND(rk_shape) |-> ValidationImage(rk_shape)[p] % 2]
    /\ rk_dtype = "bool"
    /\ rk_fshape = [i \in 1 .. Len(rk_shape) |-> 3]
    /\ rk_footprint = [m \in PositionsND(rk_fshape) |-> 1]
    /\ rk_mask = None
    /\ rk_shift_x = 0
    /\ rk_shift_y = 0
    /\ rk_n_bins_arg = None
    /\ RankPlainCall

\* The documented calls: pop and threshold of the 5x5 image with a centred
\* 3x3 block of 255, with a 3x3 square.
DocCallsRank ==
    /\ rk_func \in {"pop", "threshold"}
    /\ rk_image = DocBlockImage(255)
    /\ rk_shape = <<5, 5>>
    /\ rk_dtype = "uint8"
    /\ rk_footprint = [p \in Positions(<<3, 3>>) |-> 1]
    /\ rk_fshape = <<3, 3>>
    /\ rk_mask = None
    /\ rk_shift_x = 0
    /\ rk_shift_y = 0
    /\ rk_n_bins_arg = None
    /\ RankPlainCall

\* Calls that try the validation of _preprocess_input on a 2-D image: every
\* dtype, both layouts, every kind of out, footprints of one to three
\* dimensions, and shifts inside and outside the footprint.
ValidationCalls2D ==
    /\ rk_func \in {"pop", "noise_filter", "windowed_histogram"}
    /\ rk_shape = <<2, 3>>
    /\ rk_image = ValidationImage(rk_shape)
    /\ rk_dtype \in RankDtypes
    /\ rk_contiguous \in BOOLEAN
    /\ rk_out_arg \in OutArgs
    /\ rk_fshape \in {<<3>>, <<3, 3>>, <<1, 3>>, <<1, 3, 3>>}
    /\ rk_footprint = [m \in PositionsND(rk_fshape) |-> 1]
    /\ rk_mask = None
    /\ \E sh \in ValidationShifts2D : rk_shift_x = sh[1] /\ rk_shift_y = sh[2]
    /\ rk_shift_z = 0
    /\ rk_n_bins_arg = None
    /\ rk_mask_dtype = "uint8"

\* The same for _handle_input_3D, on a 3-D image.
ValidationCalls3D ==
    /\ rk_func \in {"pop", "noise_filter"}
    /\ rk_shape = <<2, 2, 2>>
    /\ rk_image = ValidationImage(rk_shape)
    /\ rk_dtype \in RankDtypes
    /\ rk_contiguous \in BOOLEAN
    /\ rk_out_arg \in OutArgs
    /\ rk_fshape \in {<<3, 3, 3>>, <<1, 3, 3>>, <<3, 3>>}
    /\ rk_footprint = [m \in PositionsND(rk_fshape) |-> 1]
    /\ \/ rk_mask = None /\ rk_mask_dtype = "uint8"
       \/ /\ rk_mask = Some([p \in PositionsND(rk_shape) |-> 1])
          /\ rk_mask_dtype \in {"uint8", "uint16"}
    /\ \E sh \in ValidationShifts3D :
          rk_shift_x = sh[1] /\ rk_shift_y = sh[2] /\ rk_shift_z = sh[3]
    /\ rk_n_bins_arg = None

InitRank ==
    /\ rk_pc = "call"
    /\ \/ ScanCalls
       \/ StatisticCalls
       \/ AverageCalls
       \/ MaskCalls
       \/ WideCalls
       \/ BoolCalls
       \/ SumCalls
       \/ LevelCalls
       \/ DocCallsRank
       \/ ValidationCalls2D
       \/ ValidationCalls3D
    /\ rk_kernel = None
    /\ rk_hist = << >>
    /\ rk_pop = 0
    /\ rk_row = 0
    /\ rk_col = 0
    /\ rk_out = << >>
    /\ rk_excluded = {}
    /\ rk_included = {}
    /\ rk_error = ""
    /\ FloodIdle
    /\ PairIdle

\* A filter call fails before its kernel is called.
RankInputError ==
    /\ rk_pc = "call"
    /\ FilterError(rk_func, rk_image, rk_shape, rk_dtype, rk_contiguous, rk_fshape,
                   rk_out_arg, rk_shift_x, rk_shift_y, rk_shift_z, rk_n_bins_arg) # ""
    /\ rk_error' = FilterError(rk_func, rk_image, rk_shape, rk_dtype, rk_contiguous,
                               rk_fshape, rk_out_arg, rk_shift_x, rk_shift_y,
                               rk_shift_z, rk_n_bins_arg)
    /\ rk_pc' = "raised"
    /\ UNCHANGED <<rankArgs, rk_kernel, rankScan, floodVars, pairVars>>

\* A filter call preprocesses its input and calls the kernel.
RankPreprocess ==
    /\ rk_pc = "call"
    /\ FilterError(rk_func, rk_image, rk_shape, rk_dtype, rk_contiguous, rk_fshape,
                   rk_out_arg, rk_shift_x, rk_shift_y, rk_shift_z, rk_n_bins_arg) = ""
    /\ rk_kernel' = Some(FilterCall(rk_func, rk_image, rk_shape, rk_dtype, rk_footprint,
                                    rk_fshape, rk_out_arg, rk_mask, rk_mask_dtype,
                                    rk_shift_x, rk_shift_y, rk_shift_z, rk_n_bins_arg))
    /\ rk_pc' = "kernel"
    /\ UNCHANGED <<rankArgs, rankScan, rk_error, floodVars, pairVars>>

\* The kernel rejects a centre outside the footprint.
RankInvalidFootprint ==
    /\ rk_pc = "kernel"
    /\ ~KernelCentreInside(The(rk_kernel), rk_fshape)
    /\ rk_error' = "InvalidFootprintError"
    /\ rk_pc' = "raised"
    /\ UNCHANGED <<rankArgs, rk_kernel, rankScan, floodVars, pairVars>>

\* The window is placed at the first column of row r: the histogram is cleared,
\* which takes out every pixel counted in it (those of the window of the
\* previous position, none before the first row), and built from every
\* footprint cell, and the row's first output is written.
PlaceWindow(r) ==
    LET k == The(rk_kernel)
        ctr == KernelCentre(rk_fshape, k.shift_x, k.shift_y)
        c == RowStartColumn(r, rk_shape)
        pixels == CoveredPixels(FootprintMembers(k.footprint), r, c, ctr,
                                rk_shape, k.mask)
        cleared == IF r = 0 THEN {}
                   ELSE CoveredPixels(FootprintMembers(k.footprint), rk_row, rk_col,
                                      ctr, rk_shape, k.mask)
    IN  /\ rk_row' = r
        /\ rk_col' = c
        /\ rk_excluded' = cleared
        /\ rk_included' = pixels
        /\ rk_hist' = HistInclude(EmptyHist(k.n_bins), k.image, pixels)
        /\ rk_pop' = Cardinality(pixels)
        /\ rk_out' = Commit(rk_out, <<r, c>>,
                            KernelOutput(k, rk_hist', rk_pop', k.image[<<r, c>>]))

RankRowStart ==
    /\ \/ /\ rk_pc = "kernel"
          /\ Len(rk_shape) = 2
          /\ KernelCentreInside(The(rk_kernel), rk_fshape)
          /\ PlaceWindow(0)
       \/ /\ rk_pc = "scan"
          /\ rk_col = RowEndColumn(rk_row, rk_shape)
          /\ rk_row + 1 < rk_shape[1]
          /\ PlaceWindow(rk_row + 1)
    /\ rk_pc' = "scan"
    /\ UNCHANGED <<rankArgs, rk_kernel, rk_error, floodVars, pairVars>>

\* The window moves one column along the row: the pixels of the leaving edge
\* are excluded, those of the entering edge included, and the output written.
RankColStep ==
    /\ rk_pc = "scan"
    /\ rk_col # RowEndColumn(rk_row, rk_shape)
    /\ LET k == The(rk_kernel)
           ctr == KernelCentre(rk_fshape, k.shift_x, k.shift_y)
           dir == ScanDirection(rk_row)
           c == rk_col + dir
           leaving == CoveredPixels(LeavingEdge(k.footprint, dir), rk_row, rk_col,
                                    ctr, rk_shape, k.mask)
           entering == CoveredPixels(EnteringEdge(k.footprint, dir), rk_row, c,
                                     ctr, rk_shape, k.mask)
           population == rk_pop - Cardinality(leaving) + Cardinality(entering)
       IN  /\ rk_col' = c
           /\ rk_excluded' = leaving
           /\ rk_included' = entering
           /\ rk_hist' = HistInclude(HistExclude(rk_hist, k.image, leaving),
                                     k.image, entering)
           /\ rk_pop' = population
           /\ rk_out' = Commit(rk_out, <<rk_row, c>>,
                               KernelOutput(k, rk_hist', population,
                                            k.image[<<rk_row, c>>]))
    /\ UNCHANGED <<rk_pc, rk_row, rankArgs, rk_kernel, rk_error, floodVars, pairVars>>

\* The last row is done: the kernel returns and the output is handed back.
RankReturn ==
    /\ rk_pc = "scan"
    /\ rk_col = RowEndColumn(rk_row, rk_shape)
    /\ rk_row + 1 = rk_shape[1]
    /\ rk_pc' = "done"
    /\ UNCHANGED <<rankArgs, rk_kernel, rankScan, rk_error, floodVars, pairVars>>

\* The contributing pixels of the 3-D window centred at p.
Window3D(k, fshp, shp, p) ==
    LET ctr == KernelCentre3D(fshp, k.shift_x, k.shift_y, k.shift_z)
    IN  {q \in PositionsND(shp) :
            /\ \E m \in FootprintMembers(k.footprint) :
                  \A i \in 1 .. 3 : q[i] = p[i] + m[i] - ctr[i]
            /\ The(k.mask)[q] # 0}

\* The 3-D kernel, taken as a whole: every output cell is the statistic of
\* the histogram of the window centred at it.
RankKernel3D ==
    /\ rk_pc = "kernel"
    /\ Len(rk_shape) = 3
    /\ KernelCentreInside(The(rk_kernel), rk_fshape)
    /\ LET k == The(rk_kernel)
       IN  rk_out' = [p \in PositionsND(rk_shape) |->
                        LET w == Window3D(k, rk_fshape, rk_shape, p)
                        IN  KernelOutput(k, HistInclude(EmptyHist(k.n_bins), k.image, w),
                                         Cardinality(w), k.image[p])]
    /\ rk_pc' = "done"
    /\ UNCHANGED <<rankArgs, rk_kernel, rk_hist, rk_pop, rk_row, rk_col, rk_excluded,
                   rk_included, rk_error, floodVars, pairVars>>

NextRank ==
    \/ RankInputError
    \/ RankPreprocess
    \/ RankInvalidFootprint
    \/ RankKernel3D
    \/ RankRowStart
    \/ RankColStep
    \/ RankReturn

SpecRank == InitRank /\ [][NextRank]_vars

\* ------------------------------------------------------------------ rank: claims
\* The window centre of the call: half the footprint extent plus the shift.
CallCentre == <<(rk_fshape[1] \div 2) + rk_shift_y, (rk_fshape[2] \div 2) + rk_shift_x>>

\* The image and the footprint the engine is given: the image as uint8 or
\* uint16, and the footprint of the call (noise_filter's copy with the
\* centre cleared).
EngineImage == ProcessedImage(rk_dtype, rk_image)
EngineMask == ProcessedMask(rk_mask, rk_mask_dtype)
EngineFootprint ==
    PassedFootprint(rk_func, rk_footprint, rk_fshape, Len(rk_shape), rk_shift_x,
                    rk_shift_y, rk_shift_z)

\* The pixels inside the footprint window centred at <<r, c>>, inside the
\* image bounds and inside the mask.
WindowFromScratch(r, c) ==
    LET fp == EngineFootprint
        msk == EngineMask
        ctr == CallCentre
        members == {m \in Positions(rk_fshape) : fp[m] > 0}
    IN  {q \in Positions(rk_shape) :
            /\ <<q[1] - r + ctr[1], q[2] - c + ctr[2]>> \in members
            /\ (msk = None \/ The(msk)[q] # 0)}

\* C2: at every position where an output value has been written, the
\* incrementally maintained histogram equals the histogram recomputed from
\* scratch over the pixels inside the window, the image and the mask.
C2_HistogramMatchesWindow ==
    rk_pc = "scan" =>
        LET img == EngineImage
            window == WindowFromScratch(rk_row, rk_col)
        IN  /\ <<rk_row, rk_col>> \in DOMAIN rk_out
            /\ DOMAIN rk_hist = 0 .. NBins(ProcessedDtype(rk_dtype), img) - 1
            /\ \A q \in window :
                  rk_hist[img[q]] = Cardinality({p \in window : img[p] = img[q]})
            /\ \A b \in DOMAIN rk_hist :
                  rk_hist[b] # 0 => \E q \in window : img[q] = b
            /\ rk_pop = Cardinality(window)

\* The window has moved along an odd row (right to left) with a footprint
\* that has gaps, is cut by the image border, and covers masked-out pixels.
C2_Witness ==
    /\ rk_pc = "scan"
    /\ rk_row = 1
    /\ rk_col = 0
    /\ rk_shape = <<3, 3>>
    /\ rk_fshape = <<3, 3>>
    /\ rk_mask # None
    /\ rk_footprint[<<0, 1>>] = 0
    /\ rk_footprint[<<0, 0>>] = 1
    /\ rk_pop = 2
    /\ \E b \in DOMAIN rk_hist : rk_hist[b] = 2

\* ---- claims on the statistics
\* The pixels of the window centred at the written position p, and their
\* values' extremes and sum.
WindowAt(p) == WindowFromScratch(p[1], p[2])
WindowValues(p) == {rk_image[q] : q \in WindowAt(p)}
RECURSIVE SumOver(_)
SumOver(S) ==
    IF S = {} THEN 0
    ELSE LET q == CHOOSE x \in S : TRUE IN rk_image[q] + SumOver(S \ {q})

\* The footprint cell at the centre is a member.
CentreIsMember ==
    /\ CentreInside(rk_fshape, CallCentre)
    /\ rk_footprint[CallCentre] > 0

\* C15: for a footprint whose centre cell is a member, no mask and zero
\* shift, minimum(img, f)[p] <= img[p] <= maximum(img, f)[p] at every
\* position, border positions with a truncated window included.
C15_MinimumBelowMaximumAbove ==
    (/\ rk_func \in {"minimum", "maximum"}
     /\ rk_mask = None /\ rk_shift_x = 0 /\ rk_shift_y = 0 /\ CentreIsMember) =>
        \A p \in DOMAIN rk_out :
            /\ rk_func = "minimum" => rk_out[p] <= rk_image[p]
            /\ rk_func = "maximum" => rk_image[p] <= rk_out[p]

\* maximum has finished on an image where the corner's window is truncated:
\* the output exceeds the pixel at the corner and equals it elsewhere.
C15_Witness ==
    /\ rk_pc = "done"
    /\ rk_func = "maximum"
    /\ rk_mask = None /\ rk_shift_x = 0 /\ rk_shift_y = 0 /\ CentreIsMember
    /\ rk_fshape = <<3, 3>>
    /\ rk_out[<<0, 0>>] > rk_image[<<0, 0>>]
    /\ \E p \in DOMAIN rk_out : rk_out[p] = rk_image[p] /\ rk_image[p] > 3

\* The footprint members of the call, and those whose window coordinate at
\* p is inside the image and inside the mask.
CallMembers == {m \in PositionsND(rk_fshape) : rk_footprint[m] > 0}
CallCentreND ==
    IF Len(rk_fshape) = 2 THEN CallCentre
    ELSE <<(rk_fshape[1] \div 2) + rk_shift_z, (rk_fshape[2] \div 2) + rk_shift_y,
           (rk_fshape[3] \div 2) + rk_shift_x>>
MemberCoordinate(p, m) == [i \in 1 .. Len(p) |-> p[i] + m[i] - CallCentreND[i]]
MembersInside(p) == {m \in CallMembers : MemberCoordinate(p, m) \in PositionsND(rk_shape)}
MembersCounted(p) ==
    {m \in MembersInside(p) :
        rk_mask = None \/ The(rk_mask)[MemberCoordinate(p, m)] # 0}

\* C16: pop at each position is the number of footprint members whose window
\* coordinate lies inside the image and inside the mask the caller gave
\* (where it is nonzero): never more than the number of members, that number
\* where the whole window is inside and no mask is given, less where the
\* window is truncated; a 3x3 square on a 5x5 image gives 4 at corners, 6 on
\* edges, 9 inside.
C16_PopCountsMembers ==
    rk_func = "pop" =>
        \A p \in DOMAIN rk_out :
            /\ rk_out[p] = Cardinality(MembersCounted(p))
            /\ rk_out[p] <= Cardinality(CallMembers)
            /\ (rk_mask = None /\ MembersInside(p) = CallMembers) =>
                    rk_out[p] = Cardinality(CallMembers)
            /\ MembersInside(p) # CallMembers => rk_out[p] < Cardinality(CallMembers)
            /\ rk_shape = <<5, 5>> =>
                    rk_out[p] = (CASE p[1] \in {0, 4} /\ p[2] \in {0, 4} -> 4
                                   [] p[1] \in 1 .. 3 /\ p[2] \in 1 .. 3 -> 9
                                   [] OTHER -> 6)

\* C18: threshold gives 1 exactly where the centre pixel's value is strictly
\* greater than the mean of its window, else 0; on the 5x5 image with the
\* centred 3x3 block of 255 and a 3x3 square, the centre gives 0, the other
\* eight block pixels 1 and the pixels outside the block 0.
C18_ThresholdAboveMean ==
    rk_func = "threshold" =>
        \A p \in DOMAIN rk_out :
            /\ rk_out[p] = (IF /\ WindowAt(p) # {}
                               /\ rk_image[p] * Cardinality(WindowAt(p)) > SumOver(WindowAt(p))
                            THEN 1 ELSE 0)
            /\ rk_shape = <<5, 5>> =>
                    rk_out[p] = (IF p[1] \in 1 .. 3 /\ p[2] \in 1 .. 3 /\ p # <<2, 2>>
                                 THEN 1 ELSE 0)

\* The documented threshold call has finished: the centre pixel equals its
\* local mean and gives 0, its neighbour in the block gives 1.
C18_Witness ==
    /\ rk_pc = "done"
    /\ rk_func = "threshold"
    /\ rk_shape = <<5, 5>>
    /\ rk_image[<<2, 2>>] * Cardinality(WindowAt(<<2, 2>>)) = SumOver(WindowAt(<<2, 2>>))
    /\ rk_out[<<2, 2>>] = 0
    /\ rk_out[<<1, 1>>] = 1

\* The number of window pixels of value at most b.
CountAtMost(p, b) == Cardinality({q \in WindowAt(p) : rk_image[q] <= b})
HalfPopulation(p) == (Cardinality(WindowAt(p)) + 1) \div 2

\* C19: for a non-empty window, median is the lowest bin at which the
\* cumulative count reaches ceil(population / 2), for odd and even
\* population alike.
C19_MedianReachesHalf ==
    rk_func = "median" =>
        \A p \in DOMAIN rk_out :
            WindowAt(p) # {} =>
                /\ CountAtMost(p, rk_out[p]) >= HalfPopulation(p)
                /\ \A b \in 0 .. rk_out[p] - 1 : CountAtMost(p, b) < HalfPopulation(p)

\* median was written for a window of even population whose lower and upper
\* middle values differ, and for one of odd population.
C19_Witness ==
    /\ rk_pc = "done"
    /\ rk_func = "median"
    /\ \E p \in DOMAIN rk_out :
          /\ Cardinality(WindowAt(p)) % 2 = 0
          /\ WindowAt(p) # {}
          /\ 2 * CountAtMost(p, rk_out[p]) = Cardinality(WindowAt(p))
    /\ \E p \in DOMAIN rk_out :
          Cardinality(WindowAt(p)) % 2 = 1 /\ Cardinality(WindowValues(p)) > 2

\* C20 as stated: enhance_contrast gives the local maximum when the pixel is
\* closer to it or equidistant, the local minimum when it is closer to that.
C20_TieGivesMaximum ==
    rk_func = "enhance_contrast" =>
        \A p \in DOMAIN rk_out :
            WindowAt(p) # {} =>
                rk_out[p] = (IF SetMax(WindowValues(p)) - rk_image[p]
                                   <= rk_image[p] - SetMin(WindowValues(p))
                             THEN SetMax(WindowValues(p))
                             ELSE SetMin(WindowValues(p)))

\* C20: enhance_contrast gives only the local maximum or the local minimum:
\* the maximum when the pixel is closer to the maximum than to the minimum,
\* otherwise, a pixel equidistant from both included, the minimum.
C20_TieGivesMinimum ==
    rk_func = "enhance_contrast" =>
        \A p \in DOMAIN rk_out :
            WindowAt(p) # {} =>
                /\ rk_out[p] \in {SetMax(WindowValues(p)), SetMin(WindowValues(p))}
                /\ rk_out[p] = (IF SetMax(WindowValues(p)) - rk_image[p]
                                      < rk_image[p] - SetMin(WindowValues(p))
                                THEN SetMax(WindowValues(p))
                                ELSE SetMin(WindowValues(p)))

\* enhance_contrast was written at a pixel exactly between a differing local
\* minimum and maximum, and at one closer to the maximum.
C20_Witness ==
    /\ rk_pc = "done"
    /\ rk_func = "enhance_contrast"
    /\ \E p \in DOMAIN rk_out :
          /\ WindowAt(p) # {}
          /\ SetMax(WindowValues(p)) # SetMin(WindowValues(p))
          /\ SetMax(WindowValues(p)) - rk_image[p] = rk_image[p] - SetMin(WindowValues(p))
          /\ rk_out[p] = SetMin(WindowValues(p))
    /\ \E p \in DOMAIN rk_out :
          /\ WindowAt(p) # {}
          /\ rk_out[p] = SetMax(WindowValues(p))
          /\ rk_out[p] # rk_image[p]
          /\ rk_out[p] # SetMin(WindowValues(p))

\* The length of the vector windowed_histogram is to return: the argument
\* n_bins, or image.max() + 1.
CallBins ==
    IF rk_n_bins_arg # None THEN The(rk_n_bins_arg)
    ELSE (SetMax({rk_image[q] : q \in DOMAIN rk_image})
            \div (IF rk_dtype = "float64" THEN FloatSteps ELSE 1)) + 1

\* The sum of the numerators of a vector of fractions of one denominator.
RECURSIVE SumNumerators(_, _)
SumNumerators(vec, n) == IF n = 0 THEN 0 ELSE vec[n - 1][1] + SumNumerators(vec, n - 1)

\* C17: windowed_histogram gives at every position a vector of length n_bins
\* (given, or image.max() + 1) whose elements sum to 1, or are all 0 where
\* no pixel of the window is covered by footprint and mask.
C17_VectorSumsToOne ==
    rk_func = "windowed_histogram" =>
        \A p \in DOMAIN rk_out :
            /\ DOMAIN rk_out[p] = 0 .. CallBins - 1
            /\ WindowAt(p) # {} =>
                    /\ \A i \in DOMAIN rk_out[p] : rk_out[p][i][2] = Cardinality(WindowAt(p))
                    /\ SumNumerators(rk_out[p], CallBins) = Cardinality(WindowAt(p))
            /\ WindowAt(p) = {} => \A i \in DOMAIN rk_out[p] : rk_out[p][i][1] = 0

\* ---- claims on the validation
\* The kernel has been called, or has written output.
KernelInvoked == rk_pc \in {"kernel", "scan", "done"} \/ rk_kernel # None
OutputWritten == rk_out # << >> \/ rk_hist # << >>

\* C12: whenever the output buffer passed to a rank filter is the input
\* image itself, the call fails with the in-place error before any histogram
\* work is done and before any output cell is written, 2-D and 3-D alike.
C12_AliasedOutputRejected ==
    (rk_out_arg = "image" /\ rk_pc # "call") =>
        /\ rk_pc = "raised"
        /\ rk_error = "InPlaceNotAllowedError"
        /\ ~OutputWritten

\* C13: whenever the footprint's number of dimensions differs from the
\* image's, the call fails with the dimension-mismatch error before the
\* kernel is invoked and before any output cell is written, 2-D and 3-D
\* alike.
C13_DimensionMismatchRejected ==
    (Len(rk_fshape) # Len(rk_shape) /\ rk_pc # "call") =>
        /\ rk_pc = "raised"
        /\ rk_error = "DimensionMismatchError"
        /\ ~KernelInvoked
        /\ ~OutputWritten

\* On some axis the centre, extent \div 2 plus that axis's shift, is outside
\* 0 .. extent - 1.
CentreOutside ==
    \E i \in 1 .. Len(rk_fshape) : CallCentreND[i] < 0 \/ CallCentreND[i] >= rk_fshape[i]

\* C14: if on any axis the shifted footprint centre lies outside
\* 0 .. extent - 1, the call fails with the invalid-footprint error and
\* produces no output; no such centre is wrapped or accepted, noise_filter
\* included.
C14_CentreOutsideRejected ==
    (Len(rk_fshape) = Len(rk_shape) /\ CentreOutside) =>
        /\ rk_pc \in {"call", "kernel", "raised"}
        /\ rk_pc = "raised" => rk_error = "InvalidFootprintError"
        /\ rk_pc = "kernel" => The(rk_kernel).footprint = PreprocessFootprint(rk_footprint)
        /\ ~OutputWritten

\* ---- claims on modal, majority and the empty window
\* The number of pixels of value v in the window at p, and the most frequent
\* value of the window, the lowest of them when several are as frequent; 0
\* for an empty window.
CountOf(p, v) == Cardinality({q \in WindowAt(p) : rk_image[q] = v})
ModeOfWindow(p) ==
    IF WindowAt(p) = {} THEN 0
    ELSE SetMin({v \in WindowValues(p) : \A u \in WindowValues(p) : CountOf(p, u) <= CountOf(p, v)})

\* C21: modal and majority both give, at every position, the value with the
\* highest count in the window, the lowest such value when several share the
\* highest count; so majority equals modal at every position of every call.
C21_ModalAndMajorityAgree ==
    rk_func \in {"modal", "majority"} =>
        \A p \in DOMAIN rk_out : rk_out[p] = ModeOfWindow(p)

\* majority has finished on an image where one window has two values of the
\* same highest count and the output is the lower, not the window's pixel,
\* and another window has a single most frequent value above its minimum.
C21_Witness ==
    /\ rk_pc = "done"
    /\ rk_func = "majority"
    /\ \E p \in DOMAIN rk_out :
          \E u, v \in WindowValues(p) :
              /\ u < v
              /\ CountOf(p, u) = CountOf(p, v)
              /\ CountOf(p, u) > 1
              /\ rk_out[p] = u
    /\ \E p \in DOMAIN rk_out :
          /\ rk_out[p] > SetMin(WindowValues(p) \cup {rk_out[p]})
          /\ \A u \in WindowValues(p) \ {rk_out[p]} : CountOf(p, u) < CountOf(p, rk_out[p])

\* C22: at a position whose window holds no pixel, minimum, maximum, mean and
\* entropy give 0, and the call raises no error: it runs to its end.
C22_EmptyWindowGivesZero ==
    rk_func \in {"minimum", "maximum", "mean", "entropy"} =>
        /\ \A p \in DOMAIN rk_out : WindowAt(p) = {} => rk_out[p] = 0
        /\ rk_pc \in {"scan", "done"} => rk_error = ""
        /\ (rk_pc = "raised" /\ Len(rk_shape) = 2 /\ Len(rk_fshape) = 2) =>
                ~CentreInside(rk_fshape, CallCentre)

\* mean has finished on an image with values above 0 where the mask leaves
\* the windows of some positions empty and those of others not.
C22_Witness ==
    /\ rk_pc = "done"
    /\ rk_func = "mean"
    /\ rk_error = ""
    /\ \E p \in DOMAIN rk_out : WindowAt(p) = {} /\ rk_image[p] > 0 /\ rk_out[p] = 0
    /\ \E p \in DOMAIN rk_out : WindowAt(p) # {} /\ rk_out[p] > 0

\* ---- claims on the mask
\* The pixels of the window at p when no mask is given, and the value the
\* kernel of the call gives for them.
UnmaskedWindow(p) == {MemberCoordinate(p, m) : m \in MembersInside(p)}
NoMaskOutput(p) ==
    LET k == The(rk_kernel)
        w == UnmaskedWindow(p)
    IN  KernelOutput(k, HistInclude(EmptyHist(k.n_bins), k.image, w), Cardinality(w),
                     k.image[p])
MaskNonzeroEverywhere ==
    rk_mask # None /\ \A q \in DOMAIN The(rk_mask) : The(rk_mask)[q] # 0

\* C23: a call with no mask and a call with a mask that is nonzero everywhere
\* give the same output at every position: both give what the kernel gives
\* for the window cut by the image bounds alone, on a 2-D and on a 3-D image.
C23_MaskOfOnesIsNoMask ==
    (rk_func \in MaskFuncs /\ (rk_mask = None \/ MaskNonzeroEverywhere)) =>
        \A p \in DOMAIN rk_out : rk_out[p] = NoMaskOutput(p)

\* ---- claims on the flood traversal
\* The linear indices of the padded buffers, and those of the outer ring.
BufferIndices == 0 .. ArraySize(PaddedShape(shape)) - 1
RingIndices ==
    {i \in BufferIndices : IsBorder(UnravelIndex(i, PaddedShape(shape), The(order)),
                                    PaddedShape(shape))}
TraversalStarted == pc \in {"fill", "returned", "filled"} /\ flags # << >>

\* C24: throughout a traversal every index on the worklist (the seed index
\* and every sum of a current index and a neighbor offset) lies inside the
\* padded buffer, every cell of the outer ring keeps flag 2, the worklist's
\* top is expanded only if it is an interior cell, the interior cells hold 0
\* or 1 only, and the returned view is true exactly at the interior cells
\* flagged 1.
C24_RingKeepsTraversalInside ==
    TraversalStarted =>
        /\ DOMAIN flags = BufferIndices
        /\ \A k \in 1 .. Len(stack) : stack[k] \in BufferIndices
        /\ \A i \in RingIndices : flags[i] = 2
        /\ \A i \in BufferIndices \ RingIndices : flags[i] \in {0, 1}
        /\ (pc = "fill" /\ stack # << >> /\ flags[stack[Len(stack)]] = 0) =>
                stack[Len(stack)] \notin RingIndices
        /\ mask # None =>
                \A p \in Positions(shape) :
                    The(mask)[p] =
                        (flags[RavelMultiIndex(<<p[1] + 1, p[2] + 1>>, PaddedShape(shape),
                                               The(order))] = 1)

\* The traversal has marked a cell and the worklist holds the first and the
\* last index of the buffer, two corners of the ring, with a ring index on
\* top.
C24_Witness ==
    /\ pc = "fill"
    /\ \E i \in BufferIndices : flags[i] = 1
    /\ \E k \in 1 .. Len(stack) : stack[k] = 0
    /\ \E k \in 1 .. Len(stack) : stack[k] = ArraySize(PaddedShape(shape)) - 1
    /\ stack[Len(stack)] \in RingIndices

\* The calls whose termination is checked: the images over the two largest
\* values of the type, without tolerance or with a tolerance of 0 or 1.
TerminationCall ==
    /\ \A p \in DOMAIN image : image[p] >= TypeMax - 1 \/ shape = DocShape
    /\ tolerance \in {None, Some(0), Some(1)}

\* The kernel's loop runs on until its worklist is empty, and flood then
\* returns: a call that has started is not suspended.
InitFloodFair == InitFlood /\ TerminationCall
SpecFloodFair ==
    InitFloodFair /\ [][NextFlood]_vars /\ WF_vars(FillStep) /\ WF_vars(FloodReturn)

\* Progress: a traversal that has started reaches an empty worklist and
\* flood returns.
TraversalTerminates == (pc = "fill") ~> (pc = "returned" /\ stack = << >>)

\* The bound behind it: a flag changes only from 0 to 1, a step pushes
\* indices only when it changes the flag of the popped index from 0 to 1,
\* and at most one flag changes per step; so no cell is expanded twice and
\* the cells flagged 1 never outnumber the image positions.
FlagsChangeOnce ==
    [][pc = "fill" =>
        /\ \A i \in DOMAIN flags :
              flags'[i] # flags[i] => (flags[i] = 0 /\ flags'[i] = 1)
        /\ (stack # << >> /\ Len(stack') >= Len(stack)) =>
              (flags[stack[Len(stack)]] = 0 /\ flags'[stack[Len(stack)]] = 1)
        /\ Cardinality({i \in DOMAIN flags : flags'[i] # flags[i]}) <= 1
        /\ Cardinality({i \in DOMAIN flags' : flags'[i] = 1}) <= ArraySize(shape)]_vars

\* C25: every traversal terminates with an empty worklist, and on its way a
\* flag changes at most once, from 0 to 1, the neighbours of a position are
\* pushed at most once, and the expansions are bounded by the number of
\* image positions.
C25_TerminatesExpandingOnce == TraversalTerminates /\ FlagsChangeOnce

\* A traversal has ended with an empty worklist after marking every position
\* of an image with more than one row and column.
C25_Witness ==
    /\ pc = "returned"
    /\ stack = << >>
    /\ shape[1] > 1 /\ shape[2] > 1
    /\ Cardinality({i \in DOMAIN flags : flags[i] = 1}) = ArraySize(shape)

\* ---- claims on the scan order
\* The pixel visited after pos on the snake path of an image of shp: the next
\* column to the right on an even row, to the left on an odd row, and the
\* same column of the next row at the end of a row.
SnakeSuccessor(pos, shp) ==
    IF pos[1] % 2 = 0 /\ pos[2] < shp[2] - 1 THEN <<pos[1], pos[2] + 1>>
    ELSE IF pos[1] % 2 = 1 /\ pos[2] > 0 THEN <<pos[1], pos[2] - 1>>
    ELSE <<pos[1] + 1, pos[2]>>

\* The pixels under the members of the footprint k.footprint that have no
\* member next to them in direction d, with the window centred at pos,
\* inside the image and the mask k.mask.
EdgePixels(k, pos, d) ==
    LET members == {m \in Positions(rk_fshape) : k.footprint[m] > 0}
        edge == {m \in members : <<m[1] + d[1], m[2] + d[2]>> \notin members}
        ctr == <<(rk_fshape[1] \div 2) + k.shift_y, (rk_fshape[2] \div 2) + k.shift_x>>
    IN  {q \in {<<pos[1] + m[1] - ctr[1], pos[2] + m[2] - ctr[2]>> : m \in edge} :
            q \in Positions(rk_shape) /\ (k.mask = None \/ The(k.mask)[q] # 0)}

\* What every step of a 2-D scan does to the output: the scan starts at
\* <<0, 0>> and visits next the snake successor of the pixel it is at, one
\* cell away; the pixel it comes to has no output yet and gets one, and no
\* other output changes; when the kernel returns every pixel has its output.
\* HistoryOf(old, new, d, k) is what the step from old to new in direction d
\* does to the histogram.
SnakeStep(HistoryOf(_, _, _, _)) ==
    (Len(rk_shape) = 2 /\ rk_pc \in {"kernel", "scan"} /\ rk_pc' \in {"scan", "done"}) =>
        LET old == <<rk_row, rk_col>>
            new == <<rk_row', rk_col'>>
            d == <<new[1] - old[1], new[2] - old[2]>>
            k == The(rk_kernel)
        IN  IF rk_pc' = "done"
            THEN DOMAIN rk_out' = Positions(rk_shape) /\ rk_out' = rk_out
            ELSE /\ new \notin DOMAIN rk_out
                 /\ DOMAIN rk_out' = DOMAIN rk_out \cup {new}
                 /\ \A q \in DOMAIN rk_out : rk_out'[q] = rk_out[q]
                 /\ IF rk_pc = "kernel" THEN new = <<0, 0>>
                    ELSE /\ new = SnakeSuccessor(old, rk_shape)
                         /\ d \in {<<0, 1>>, <<0, -1>>, <<1, 0>>}
                         /\ HistoryOf(old, new, d, k)

\* The step takes out of the histogram the pixels under the leaving edge of
\* the footprint and no other, and puts in those under the entering edge
\* and no other.
OnlyEdgesMove(old, new, d, k) ==
    /\ rk_excluded' = EdgePixels(k, old, <<0 - d[1], 0 - d[2]>>)
    /\ rk_included' = EdgePixels(k, new, d)

\* The whole window at pos: the pixels under every member of the footprint,
\* inside the image and the mask.
FullWindow(k, pos) ==
    LET members == {m \in Positions(rk_fshape) : k.footprint[m] > 0}
        ctr == <<(rk_fshape[1] \div 2) + k.shift_y, (rk_fshape[2] \div 2) + k.shift_x>>
    IN  {q \in {<<pos[1] + m[1] - ctr[1], pos[2] + m[2] - ctr[2]>> : m \in members} :
            q \in Positions(rk_shape) /\ (k.mask = None \/ The(k.mask)[q] # 0)}

\* Along a row the step moves only the pixels of the two edges; at a row
\* change it takes out the whole window of the old position and puts in the
\* whole window of the new one. Either way the histogram and the population
\* change by the pixels of the leaving edge less and those of the entering
\* edge more.
EdgesAlongRowRebuildAtRowChange(old, new, d, k) ==
    LET leaving == EdgePixels(k, old, <<0 - d[1], 0 - d[2]>>)
        entering == EdgePixels(k, new, d)
    IN  /\ d[1] = 0 => (rk_excluded' = leaving /\ rk_included' = entering)
        /\ d[1] = 1 => (rk_excluded' = FullWindow(k, old) /\ rk_included' = FullWindow(k, new))
        /\ DOMAIN rk_hist' = DOMAIN rk_hist
        /\ \A b \in DOMAIN rk_hist :
              rk_hist'[b] = rk_hist[b]
                            - Cardinality({q \in leaving : k.image[q] = b})
                            + Cardinality({q \in entering : k.image[q] = b})
        /\ rk_pop' = rk_pop - Cardinality(leaving) + Cardinality(entering)

PairShape == <<2, 2>>

\* The images a pair of calls is given: every grid of the two largest values.
PairImages == [Positions(PairShape) -> {TypeMax - 1, TypeMax}]

\* The tolerances a call of the pair is given.
PairTolerances == {None, Some(1)}

\* The memory layout of each call's copy.
PairLayout(i) == IF i = 1 THEN "C" ELSE "F"

\* A variant of NewId that hands out the buffer allocated last.
NewIdReused(h) == Len(h)

\* `np.pad(...)`, `np.zeros(...)`: every allocation is a new array.
NewId(h) == Len(h) + 1

\* The heap with array arr stored under buffer id.
Store(h, id, arr) ==
    [b \in 1 .. Max2(Len(h), id) |-> IF b = id THEN arr ELSE h[b]]

\* A call of flood(image, seed_point, connectivity=1, tolerance=tol) about
\* to start on the copy held in buffer img_id.
NewCall(img_id, lay, sp, tol) ==
    [pc |-> "call", image |-> img_id, layout |-> lay, seed_point |-> sp,
     tolerance |-> tol, order |-> None, seed_value |-> None,
     working_image |-> 0, flags |-> 0, neighbor_offsets |-> << >>,
     low_tol |-> None, high_tol |-> None, stack |-> << >>, mask |-> None]

\* Two calls on two copies of one image, neither started.
InitPair ==
    /\ \E img \in PairImages : heap = <<img, img>>
    /\ \E sp1 \in Positions(PairShape), sp2 \in Positions(PairShape),
          t1 \in PairTolerances, t2 \in PairTolerances :
           calls = <<NewCall(1, PairLayout(1), sp1, t1),
                     NewCall(2, PairLayout(2), sp2, t2)>>
    /\ FloodIdle
    /\ RankIdle

\* The call's setup (what FloodSetup does), with the padded image and the
\* flag grid allocated on the heap.
PairSetup(i) ==
    /\ calls[i].pc = "call"
    /\ LET c == calls[i]
           img == heap[c.image]
           ord == RavelOrder(c.layout, PairShape)
           sv == ArrayAt(img, c.seed_point, PairShape)
           sp == SeedModShape(c.seed_point, PairShape)
           fp == ResolveNeighborhood(None, Some(1), Len(PairShape))
           pshp == PaddedShape(PairShape)
           wid == NewId(heap)
           h1 == Store(heap, wid, Ravel(PadImage(img, PairShape), pshp, ord))
           fid == NewId(h1)
           h2 == Store(h1, fid,
                       Ravel(SetBorderValues(ZeroFlags(pshp), pshp, 2), pshp, ord))
       IN  /\ heap' = h2
           /\ calls' = [calls EXCEPT ![i] =
                  [c EXCEPT !.pc = "fill",
                            !.order = Some(ord),
                            !.seed_value = Some(sv),
                            !.working_image = wid,
                            !.flags = fid,
                            !.neighbor_offsets =
                                OffsetsToRaveledNeighbors(pshp, fp, FootprintCenter, ord),
                            !.high_tol = IF c.tolerance # None
                                         THEN Some(HighTol(sv, The(c.tolerance)))
                                         ELSE None,
                            !.low_tol = IF c.tolerance # None
                                        THEN Some(LowTol(sv, The(c.tolerance)))
                                        ELSE None,
                            !.stack = <<RavelledSeedIdx(sp, PairShape, ord)>>]]
    /\ UNCHANGED <<floodVars, rankVars>>

\* Whether the value v matches under the call's tolerance bounds.
PairMatches(c, v) ==
    IF c.tolerance # None
    THEN FloodFillToleranceMatch(v, The(c.low_tol), The(c.high_tol))
    ELSE FloodFillEqualMatch(v, The(c.seed_value))

\* One iteration of the kernel's loop in call i (what FillStep does), on the
\* buffers the call holds.
PairFillStep(i) ==
    /\ calls[i].pc = "fill"
    /\ calls[i].stack # << >>
    /\ LET c == calls[i]
           idx == c.stack[Len(c.stack)]
           rest == SubSeq(c.stack, 1, Len(c.stack) - 1)
           matches == PairMatches(c, heap[c.working_image][idx])
       IN  IF Expands(heap[c.flags], idx, matches)
           THEN /\ heap' = [heap EXCEPT ![c.flags][idx] = 1]
                /\ calls' = [calls EXCEPT ![i].stack =
                                 rest \o NeighborsOf(idx, c.neighbor_offsets)]
           ELSE /\ heap' = heap
                /\ calls' = [calls EXCEPT ![i].stack = rest]
    /\ UNCHANGED <<floodVars, rankVars>>

\* Call i returns the interior of its flag grid (what FloodReturn does).
PairReturn(i) ==
    /\ calls[i].pc = "fill"
    /\ calls[i].stack = << >>
    /\ calls' = [calls EXCEPT
                     ![i].mask = Some(InteriorView(heap[calls[i].flags], PairShape,
                                                   The(calls[i].order))),
                     ![i].pc = "returned"]
    /\ UNCHANGED <<heap, floodVars, rankVars>>

NextPair ==
    \E i \in 1 .. 2 :
        \/ PairSetup(i)
        \/ PairFillStep(i)
        \/ PairReturn(i)

SpecPair == InitPair /\ [][NextPair]_vars

\* The kernel's loop run to the end with nothing else running: the flag
\* grid left when the worklist stk is empty.
RECURSIVE RunKernel(_, _, _, _)
RunKernel(c, work, flg, stk) ==
    IF stk = << >>
    THEN flg
    ELSE LET idx == stk[Len(stk)]
             rest == SubSeq(stk, 1, Len(stk) - 1)
         IN  IF Expands(flg, idx, PairMatches(c, work[idx]))
             THEN RunKernel(c, work, [flg EXCEPT ![idx] = 1],
                            rest \o NeighborsOf(idx, c.neighbor_offsets))
             ELSE RunKernel(c, work, flg, rest)

\* The mask call i returns when it runs alone on its copy.
AloneMask(i) ==
    LET c == calls[i]
        ord == The(c.order)
        pshp == PaddedShape(PairShape)
        work == Ravel(PadImage(heap[c.image], PairShape), pshp, ord)
        flg == Ravel(SetBorderValues(ZeroFlags(pshp), pshp, 2), pshp, ord)
        sp == SeedModShape(c.seed_point, PairShape)
    IN  InteriorView(RunKernel(c, work, flg, <<RavelledSeedIdx(sp, PairShape, ord)>>),
                     PairShape, ord)

\* The buffers call c holds.
BuffersOf(c) == {c.image, c.working_image, c.flags} \ {0}

\* The two calls hold no buffer in common, and a returned call's mask is
\* the one it returns alone.
PairIsolated ==
    /\ BuffersOf(calls[1]) \cap BuffersOf(calls[2]) = {}
    /\ \A i \in 1 .. 2 :
           calls[i].pc = "returned" => calls[i].mask = Some(AloneMask(i))

\* A step of one call leaves the other call and every buffer it holds as
\* they were, and writes no image copy.
PairStepsOwnBuffers ==
    \A i \in 1 .. 2 :
        calls'[i] # calls[i] =>
            /\ calls'[3 - i] = calls[3 - i]
            /\ \A b \in 1 .. Len(heap) :
                   heap'[b] # heap[b] => b = calls[i].flags

\* C27: two flood calls whose steps interleave, each on its own copy of an
\* image, return the masks they return when run alone; each call allocates
\* its own flag grid and padded image, and no step of one call writes a
\* buffer of the other.
C27_InterleavedCallsAgree == []PairIsolated /\ [][PairStepsOwnBuffers]_vars

\* Call 1 has returned a mask with a filled cell although it started after
\* call 2 and call 2, with a cell of its own already filled, is still in
\* the kernel's loop.
C27_Witness ==
    /\ calls # << >>
    /\ calls[1].pc = "returned"
    /\ \E p \in Positions(PairShape) : The(calls[1].mask)[p]
    /\ calls[2].pc = "fill"
    /\ calls[2].stack # << >>
    /\ calls[2].flags < calls[1].working_image
    /\ \E idx \in DOMAIN heap[calls[2].flags] : heap[calls[2].flags][idx] = 1

\* ---- claim on noise_filter's footprint copy
\* The footprint cell the kernel takes as the window centre for the call k.
KernelCentreOf(k, fshp) ==
    IF Len(fshp) = 2
    THEN KernelCentre(fshp, k.shift_x, k.shift_y)
    ELSE KernelCentre3D(fshp, k.shift_x, k.shift_y, k.shift_z)

\* The kernel of a noise_filter call has been handed a footprint whose
\* centre it accepts.
NoiseKernelCalled ==
    /\ rk_func = "noise_filter"
    /\ rk_kernel # None
    /\ KernelCentreInside(The(rk_kernel), rk_fshape)

\* The footprint the kernel holds is the caller's, with the cell the kernel
\* takes as the centre cleared and no other cell changed.
NoiseCopyClearsKernelCentre ==
    NoiseKernelCalled =>
        LET k == The(rk_kernel)
            ctr == KernelCentreOf(k, rk_fshape)
            given == PreprocessFootprint(rk_footprint)
        IN  \A m \in DOMAIN given :
                k.footprint[m] = (IF m = ctr THEN 0 ELSE given[m])

\* C28: noise_filter never modifies the caller's footprint; the kernel
\* receives a copy equal to it in every cell except the single cell at the
\* shifted centre, which is 0, and that cell is the cell the kernel treats
\* as the window centre, in the 2-D and in the 3-D path and for non-cubic
\* footprints.
C28_NoiseFilterClearsCentre ==
    []NoiseCopyClearsKernelCentre /\ [][rk_footprint' = rk_footprint]_vars

\* ---- claim on the memory layout
\* The layouts an image of the same content can have.
ViewLayouts == Layouts \cup {"N"}

\* The mask flood returns for the call's image, seed, footprint and
\* tolerance when the image has layout lay: everything built with the
\* order that layout gives, and the kernel's loop run to the end.
MaskForLayout(lay) ==
    LET ord == RavelOrder(lay, shape)
        pshp == PaddedShape(shape)
        c == [tolerance |-> tolerance, low_tol |-> low_tol, high_tol |-> high_tol,
              seed_value |-> seed_value,
              neighbor_offsets |->
                  OffsetsToRaveledNeighbors(pshp, footprint, FootprintCenter, ord)]
        work == Ravel(PadImage(image, shape), pshp, ord)
        flg == Ravel(SetBorderValues(ZeroFlags(pshp), pshp, 2), pshp, ord)
    IN  InteriorView(RunKernel(c, work, flg,
                               <<RavelledSeedIdx(The(start_point), shape, ord)>>),
                     shape, ord)

\* C29: the mask flood returns depends on the content of the image only: a
\* row-major image, a column-major image and a non-contiguous view of the
\* same values give, for the same seed, footprint and tolerance, the same
\* mask at every coordinate.
C29_MaskIndependentOfLayout ==
    FloodReturned =>
        \A lay \in ViewLayouts : The(mask) = MaskForLayout(lay)

\* flood has returned a mask with a filled and an unfilled cell for a view
\* that is not contiguous, ravelled in another order than a contiguous
\* image of that shape.
C29_Witness ==
    /\ FloodReturned
    /\ layout = "N"
    /\ RavelOrder("C", shape) # The(order)
    /\ \E p, q \in Positions(shape) : The(mask)[p] /\ ~The(mask)[q]

\* ---- claim on the bin count
\* The kernel's image is 8-bit: the caller's image was, or was converted.
KernelImageIs8Bit == rk_dtype # "uint16"

\* The number of pixels the histogram h holds.
HistCount(h) == SumBins(h, PopulatedBins(h), FALSE)

\* C30: the bin count handed to a rank kernel is 256 for an 8-bit image and
\* max(3, image.max()) + 1 for a wide one, which lies in 4 .. 65536; every
\* pixel value of the processed image is a bin, 0 <= v < n_bins, and the
\* histogram of the scan has these bins and holds every pixel of the window,
\* none having been counted outside 0 .. n_bins - 1.
C30_BinsCoverPixelValues ==
    rk_kernel # None =>
        LET k == The(rk_kernel)
            top == ArrayMax(k.image)
        IN  /\ k.n_bins = (IF KernelImageIs8Bit THEN 256
                           ELSE IF top < 3 THEN 4 ELSE top + 1)
            /\ ~KernelImageIs8Bit => 4 <= k.n_bins /\ k.n_bins <= Uint16Max + 1
            /\ \A p \in DOMAIN k.image : 0 <= k.image[p] /\ k.image[p] < k.n_bins
            /\ rk_hist # << >> =>
                   /\ DOMAIN rk_hist = 0 .. k.n_bins - 1
                   /\ HistCount(rk_hist) = rk_pop

\* A scan of a wide image has counted a pixel of the image's largest
\* value in the last bin.
C30_Witness ==
    /\ rk_pc = "scan"
    /\ rk_dtype = "uint16"
    /\ The(rk_kernel).n_bins > 4
    /\ The(rk_kernel).n_bins = ArrayMax(rk_image) + 1
    /\ rk_hist[The(rk_kernel).n_bins - 1] > 0

====
